---- MODULE Spec2Model ----
(***************************************************************************)
(* Dispatch and hand-off subsystem of gastown: the convoy tracker, the     *)
(* convoy queue (internal/cmd/convoy_queue.go) and sling / recycle         *)
(* (internal/cmd/recycle.go).                                              *)
(***************************************************************************)
EXTENDS Integers, Sequences, FiniteSets, TLC

VARIABLES
    convoys,      \* convoy id -> [status, tracked, landed]
    issues,       \* issue id  -> [status, assignee, queued]
    lastConvoy,   \* outcome of the most recent convoy-tracker call
    unreadable,   \* issues whose record the store cannot currently return
    deps,         \* issue id -> the issues that block it
    backlog,      \* issue id -> number of times it was placed in a rig backlog
    qp,           \* convoy queue invocation -> its position and counters
    hooks,        \* the hook records (wisps) on disk
    sl,           \* the sling invocation in flight: position, inputs, effects
    clock,        \* number of hook records created so far (their created_at)
    attached,     \* identity -> record the last unconsumed sling asked to attach
    delivered,    \* created_at -> number of times consume has returned it
    lost,         \* created_at of records replaced before they were consumed
    lastHook,     \* the most recent write / consume on the hook store
    sessions,     \* names of the tmux sessions that are running
    rc,           \* the recycle invocation in flight: position, inputs, effects
    cls,          \* a store failure and what the classifier made of it
    files,        \* settings path -> its directory and its file on disk
    first,        \* settings path -> the content its file had when first seen
    ens           \* the most recent EnsureSettingsAt call

queueVars == <<unreadable, deps, backlog, qp>>

slingVars == <<hooks, sl, clock, attached, delivered, lost, lastHook>>

recycleVars == <<sessions, rc>>

hostVars == <<cls, files, first, ens>>

vars == <<convoys, issues, lastConvoy, queueVars, slingVars, recycleVars, hostVars>>

----------------------------------------------------------------------------
(* Identifiers.  A bead id is <<prefix, suffix>>, i.e. "gt-a" is <<"gt","a">>. *)

ConvoyIds == {"hq-cv-1"}

IssueIds == {<<"gt", "a">>, <<"bd", "b">>, <<"hq", "1">>}

IssueStatuses == {"open", "in_progress", "closed", "tombstone"}

Assignees == {"", "gastown/nux"}

\* Longest argument list handed to one track / create call.
MaxArgs == 2

SeqsUpTo(S, n) == UNION {[1..k -> S] : k \in 0..n}

Range(s) == {s[k] : k \in 1..Len(s)}

----------------------------------------------------------------------------
(* Issue store facts.                                                      *)

IsClosedStatus_OnlyClosed(s) == s = "closed"

IsClosedStatus_NotOpen(s) == s # "open"

IsClosedStatus(s) == s = "closed" \/ s = "tombstone"

----------------------------------------------------------------------------
(* ConvoyTracker.                                                          *)

NoConvoy == [status |-> "none", tracked |-> <<>>, landed |-> FALSE]

NoConvoyCall ==
    [op |-> "none", convoy |-> "", ids |-> <<>>, result |-> "",
     prevStatus |-> "none", prevTracked |-> <<>>, payload |-> <<>>]

RECURSIVE TrackAdd_Append(_, _)
TrackAdd_Append(tracked, ids) ==
    IF ids = <<>> THEN tracked
    ELSE TrackAdd_Append(Append(tracked, Head(ids)), Tail(ids))

RECURSIVE TrackAdd(_, _)
TrackAdd(tracked, ids) ==
    IF ids = <<>> THEN tracked
    ELSE IF Head(ids) \in Range(tracked)
         THEN TrackAdd(tracked, Tail(ids))
         ELSE TrackAdd(Append(tracked, Head(ids)), Tail(ids))

AllTrackedClosed(c) ==
    /\ convoys[c].tracked # <<>>
    /\ \A k \in 1..Len(convoys[c].tracked) :
           IsClosedStatus(issues[convoys[c].tracked[k]].status)

Create(c, title, ids) ==
    /\ convoys[c].status = "none"
    /\ IF title = "" \/ ids = <<>>
       THEN /\ UNCHANGED convoys
            /\ lastConvoy' = [NoConvoyCall EXCEPT !.op = "create", !.convoy = c,
                                 !.ids = ids, !.result = "ValidationError"]
       ELSE /\ convoys' = [convoys EXCEPT ![c] =
                              [status |-> "open", tracked |-> TrackAdd(<<>>, ids),
                               landed |-> FALSE]]
            /\ lastConvoy' = [NoConvoyCall EXCEPT !.op = "create", !.convoy = c,
                                 !.ids = ids, !.result = "ok"]
    /\ UNCHANGED <<issues, queueVars, slingVars, recycleVars, hostVars>>

TrackReopened_IfWorkLeft(c, ids) ==
    IF \E k \in 1..Len(ids) : ~IsClosedStatus(issues[ids[k]].status)
    THEN [convoys[c] EXCEPT !.tracked = TrackAdd(@, ids),
                            !.status = "open", !.landed = FALSE]
    ELSE [convoys[c] EXCEPT !.tracked = TrackAdd(@, ids)]

TrackReopened(c, ids) ==
    [convoys[c] EXCEPT !.tracked = TrackAdd(@, ids),
                       !.status = "open", !.landed = FALSE]

Track(c, ids) ==
    /\ ids # <<>>
    /\ IF convoys[c].status = "none"
       THEN /\ UNCHANGED convoys
            /\ lastConvoy' = [NoConvoyCall EXCEPT !.op = "track", !.convoy = c,
                                 !.ids = ids, !.result = "NotFoundError"]
       ELSE /\ convoys' = [convoys EXCEPT ![c] = TrackReopened(c, ids)]
            /\ lastConvoy' = [NoConvoyCall EXCEPT !.op = "track", !.convoy = c,
                                 !.ids = ids,
                                 !.result = IF convoys[c].status = "closed"
                                            THEN "reopened" ELSE "ok",
                                 !.prevStatus = convoys[c].status,
                                 !.prevTracked = convoys[c].tracked]
    /\ UNCHANGED <<issues, queueVars, slingVars, recycleVars, hostVars>>

EvaluateLanding(c) ==
    /\ convoys[c].status # "none"
    /\ IF convoys[c].status = "open" /\ AllTrackedClosed(c)
       THEN /\ convoys' = [convoys EXCEPT ![c].status = "closed",
                                          ![c].landed = TRUE]
            /\ lastConvoy' = [NoConvoyCall EXCEPT !.op = "evaluateLanding",
                                 !.convoy = c, !.result = "landed",
                                 !.prevStatus = convoys[c].status,
                                 !.prevTracked = convoys[c].tracked,
                                 !.payload = convoys[c].tracked]
       ELSE /\ UNCHANGED convoys
            /\ lastConvoy' = [NoConvoyCall EXCEPT !.op = "evaluateLanding",
                                 !.convoy = c, !.result = "no-transition",
                                 !.prevStatus = convoys[c].status,
                                 !.prevTracked = convoys[c].tracked]
    /\ UNCHANGED <<issues, queueVars, slingVars, recycleVars, hostVars>>

(* The issue store changes an issue's status on its own (a worker closes   *)
(* it, an operator reopens it); the tracker is not told.                   *)
SetIssueStatus(i, s) ==
    /\ issues[i].status # s
    /\ issues' = [issues EXCEPT ![i].status = s]
    /\ lastConvoy' = NoConvoyCall
    /\ UNCHANGED <<convoys, queueVars, slingVars, recycleVars, hostVars>>


----------------------------------------------------------------------------
(* DispatchQueue: gt convoy queue <convoy-id> [--dry-run] [--force].        *)

QueueRuns == {"q1", "q2"}

QueueFlags == [force : BOOLEAN, dryRun : BOOLEAN]

\* What can go wrong outside the program before the filter loop.
QueueFaults == {"none", "not-in-workspace", "bd-show-crash", "tracked-read-error"}

\* Rig owning a bead prefix; "" for the town root and for unknown prefixes.
resolveRigForBead(id) ==
    CASE id[1] = "gt" -> "gastown"
      [] id[1] = "bd" -> "beads"
      [] OTHER -> ""

NoScan ==
    [candidates |-> <<>>, skippedClosed |-> 0, skippedAssigned |-> 0,
     skippedQueued |-> 0, skippedNoRig |-> 0]

ScanIssue_DryRunNoLookup(acc, id, flags) ==
    IF IsClosedStatus(issues[id].status)
    THEN [acc EXCEPT !.skippedClosed = @ + 1]
    ELSE IF issues[id].assignee # "" /\ ~flags.force
    THEN [acc EXCEPT !.skippedAssigned = @ + 1]
    ELSE IF ~flags.dryRun /\ id \in unreadable
    THEN acc
    ELSE IF ~flags.dryRun /\ issues[id].queued
    THEN [acc EXCEPT !.skippedQueued = @ + 1]
    ELSE IF resolveRigForBead(id) = ""
    THEN [acc EXCEPT !.skippedNoRig = @ + 1]
    ELSE [acc EXCEPT !.candidates =
              Append(@, [id |-> id, rig |-> resolveRigForBead(id)])]

ScanIssue_SkipsBlocked(acc, id, flags) ==
    IF IsClosedStatus(issues[id].status)
    THEN [acc EXCEPT !.skippedClosed = @ + 1]
    ELSE IF issues[id].assignee # "" /\ ~flags.force
    THEN [acc EXCEPT !.skippedAssigned = @ + 1]
    ELSE IF id \in unreadable
    THEN acc
    ELSE IF issues[id].queued
    THEN [acc EXCEPT !.skippedQueued = @ + 1]
    ELSE IF resolveRigForBead(id) = ""
    THEN [acc EXCEPT !.skippedNoRig = @ + 1]
    ELSE IF \E b \in deps[id] : ~IsClosedStatus(issues[b].status)
    THEN acc
    ELSE [acc EXCEPT !.candidates =
              Append(@, [id |-> id, rig |-> resolveRigForBead(id)])]

ScanIssue_QueuedFirst(acc, id, flags) ==
    IF IsClosedStatus(issues[id].status)
    THEN [acc EXCEPT !.skippedClosed = @ + 1]
    ELSE IF id \in unreadable
    THEN acc
    ELSE IF issues[id].queued
    THEN [acc EXCEPT !.skippedQueued = @ + 1]
    ELSE IF issues[id].assignee # "" /\ ~flags.force
    THEN [acc EXCEPT !.skippedAssigned = @ + 1]
    ELSE IF resolveRigForBead(id) = ""
    THEN [acc EXCEPT !.skippedNoRig = @ + 1]
    ELSE [acc EXCEPT !.candidates =
              Append(@, [id |-> id, rig |-> resolveRigForBead(id)])]

ScanIssue_ForceSkipsLabel(acc, id, flags) ==
    IF IsClosedStatus(issues[id].status)
    THEN [acc EXCEPT !.skippedClosed = @ + 1]
    ELSE IF issues[id].assignee # "" /\ ~flags.force
    THEN [acc EXCEPT !.skippedAssigned = @ + 1]
    ELSE IF id \in unreadable
    THEN acc
    ELSE IF issues[id].queued /\ ~flags.force
    THEN [acc EXCEPT !.skippedQueued = @ + 1]
    ELSE IF resolveRigForBead(id) = ""
    THEN [acc EXCEPT !.skippedNoRig = @ + 1]
    ELSE [acc EXCEPT !.candidates =
              Append(@, [id |-> id, rig |-> resolveRigForBead(id)])]

\* One iteration of the filter loop.
ScanIssue(acc, id, flags) ==
    IF IsClosedStatus(issues[id].status)
    THEN [acc EXCEPT !.skippedClosed = @ + 1]
    ELSE IF issues[id].assignee # "" /\ ~flags.force
    THEN [acc EXCEPT !.skippedAssigned = @ + 1]
    ELSE IF id \in unreadable
    THEN acc
    ELSE IF issues[id].queued
    THEN [acc EXCEPT !.skippedQueued = @ + 1]
    ELSE IF resolveRigForBead(id) = ""
    THEN [acc EXCEPT !.skippedNoRig = @ + 1]
    ELSE [acc EXCEPT !.candidates =
              Append(@, [id |-> id, rig |-> resolveRigForBead(id)])]

RECURSIVE ScanTracked(_, _, _)
ScanTracked(acc, tracked, flags) ==
    IF tracked = <<>> THEN acc
    ELSE ScanTracked(ScanIssue(acc, Head(tracked), flags), Tail(tracked), flags)

StoreSnapshot(c) ==
    [issues |-> issues, unreadable |-> unreadable, tracked |-> convoys[c].tracked]

NoSnapshot == [issues |-> <<>>, unreadable |-> {}, tracked |-> <<>>]

IdleQueue ==
    [pc |-> "idle", convoy |-> "", flags |-> [force |-> FALSE, dryRun |-> FALSE],
     err |-> "", total |-> 0, scan |-> NoScan, next |-> 1,
     successCount |-> 0, failed |-> 0, snap |-> NoSnapshot]

QueueScan_ClosesLandedConvoy(p, c, flags, fault) ==
    /\ qp[p].pc = "idle"
    /\ LET started == [IdleQueue EXCEPT !.convoy = c, !.flags = flags]
           scan == ScanTracked(NoScan, convoys[c].tracked, flags)
       IN qp' = [qp EXCEPT ![p] =
            IF fault = "not-in-workspace"
            THEN [started EXCEPT !.pc = "done", !.err = "not-in-workspace"]
            ELSE IF convoys[c].status = "none" \/ fault = "bd-show-crash"
            THEN [started EXCEPT !.pc = "done", !.err = "convoy-not-found"]
            ELSE IF fault = "tracked-read-error"
            THEN [started EXCEPT !.pc = "done", !.err = "getting-tracked-issues"]
            ELSE IF convoys[c].tracked = <<>>
            THEN [started EXCEPT !.pc = "done", !.snap = StoreSnapshot(c)]
            ELSE [started EXCEPT
                     !.pc = IF scan.candidates = <<>> \/ flags.dryRun
                            THEN "done" ELSE "placing",
                     !.total = Len(convoys[c].tracked),
                     !.scan = scan,
                     !.snap = StoreSnapshot(c)]]
    /\ convoys' = IF /\ fault = "none" /\ convoys[c].status = "open"
                     /\ convoys[c].tracked # <<>>
                     /\ \A k \in 1..Len(convoys[c].tracked) :
                           IsClosedStatus(issues[convoys[c].tracked[k]].status)
                  THEN [convoys EXCEPT ![c].status = "closed", ![c].landed = TRUE]
                  ELSE convoys
    /\ UNCHANGED <<issues, lastConvoy, unreadable, deps, backlog, slingVars, recycleVars, hostVars>>

(* Everything runConvoyQueue does before the placement loop: workspace and *)
(* convoy checks, the tracked-issue read, the filter loop, and the early   *)
(* returns for "nothing to queue" and --dry-run.                           *)
QueueScan(p, c, flags, fault) ==
    /\ qp[p].pc = "idle"
    /\ LET started == [IdleQueue EXCEPT !.convoy = c, !.flags = flags]
           scan == ScanTracked(NoScan, convoys[c].tracked, flags)
       IN qp' = [qp EXCEPT ![p] =
            IF fault = "not-in-workspace"
            THEN [started EXCEPT !.pc = "done", !.err = "not-in-workspace"]
            ELSE IF convoys[c].status = "none" \/ fault = "bd-show-crash"
            THEN [started EXCEPT !.pc = "done", !.err = "convoy-not-found"]
            ELSE IF fault = "tracked-read-error"
            THEN [started EXCEPT !.pc = "done", !.err = "getting-tracked-issues"]
            ELSE IF convoys[c].tracked = <<>>
            THEN [started EXCEPT !.pc = "done", !.snap = StoreSnapshot(c)]
            ELSE [started EXCEPT
                     !.pc = IF scan.candidates = <<>> \/ flags.dryRun
                            THEN "done" ELSE "placing",
                     !.total = Len(convoys[c].tracked),
                     !.scan = scan,
                     !.snap = StoreSnapshot(c)]]
    /\ UNCHANGED <<convoys, issues, lastConvoy, unreadable, deps, backlog, slingVars, recycleVars, hostVars>>

QueuePlace_AbortsOnError(p, ok) ==
    /\ qp[p].pc = "placing"
    /\ LET cand == qp[p].scan.candidates[qp[p].next]
           last == qp[p].next = Len(qp[p].scan.candidates)
       IN /\ IF ok
             THEN /\ issues' = [issues EXCEPT ![cand.id].queued = TRUE]
                  /\ backlog' = [backlog EXCEPT ![cand.id] = @ + 1]
             ELSE UNCHANGED <<issues, backlog>>
          /\ qp' = [qp EXCEPT ![p].next = @ + 1,
                              ![p].successCount = IF ok THEN @ + 1 ELSE @,
                              ![p].failed = IF ok THEN @ ELSE @ + 1,
                              ![p].err = IF ok THEN @ ELSE "enqueue-failed",
                              ![p].pc = IF last \/ ~ok THEN "done" ELSE "placing"]
    /\ UNCHANGED <<convoys, lastConvoy, unreadable, deps, slingVars, recycleVars, hostVars>>

(* One iteration of the placement loop: enqueueBead for the next candidate. *)
(* A placement that succeeds puts the bead in its rig's backlog and marks   *)
(* it with the queue label; one that fails is reported and skipped.         *)
QueuePlace(p, ok) ==
    /\ qp[p].pc = "placing"
    /\ LET cand == qp[p].scan.candidates[qp[p].next]
           last == qp[p].next = Len(qp[p].scan.candidates)
       IN /\ IF ok
             THEN /\ issues' = [issues EXCEPT ![cand.id].queued = TRUE]
                  /\ backlog' = [backlog EXCEPT ![cand.id] = @ + 1]
             ELSE UNCHANGED <<issues, backlog>>
          /\ qp' = [qp EXCEPT ![p].next = @ + 1,
                              ![p].successCount = IF ok THEN @ + 1 ELSE @,
                              ![p].failed = IF ok THEN @ ELSE @ + 1,
                              ![p].pc = IF last THEN "done" ELSE "placing"]
    /\ UNCHANGED <<convoys, lastConvoy, unreadable, deps, slingVars, recycleVars, hostVars>>


----------------------------------------------------------------------------
(* Sessions and identities.  A session name is the list of its             *)
(* dash-separated parts ("gt-rigA-crew-joe" is <<"gt","rigA","crew","joe">>), *)
(* an agent identity the list of its slash-separated parts                 *)
(* ("rigA/crew/joe" is <<"rigA","crew","joe">>).                           *)

NoSession == <<>>

HasSuffixPart(name, part) == Len(name) >= 2 /\ name[Len(name)] = part

ContainsPart(name, part) == \E k \in 2..(Len(name) - 1) : name[k] = part

TrimPrefixGt(name) == IF Len(name) >= 2 /\ name[1] = "gt" THEN Tail(name) ELSE name

TrimSuffixPart(name, part) ==
    IF HasSuffixPart(name, part) THEN SubSeq(name, 1, Len(name) - 1) ELSE name

buildRestartCommand_NoDefaultError(sessionName) ==
    IF sessionName = <<"gt", "mayor">> THEN "gt may at"
    ELSE IF sessionName = <<"gt", "deacon">> THEN "gt dea at"
    ELSE IF HasSuffixPart(sessionName, "witness") THEN "gt wit at"
    ELSE IF HasSuffixPart(sessionName, "refinery") THEN "gt ref at"
    ELSE "gt crew at"

buildRestartCommand(sessionName) ==
    IF sessionName = <<"gt", "mayor">> THEN "gt may at"
    ELSE IF sessionName = <<"gt", "deacon">> THEN "gt dea at"
    ELSE IF ContainsPart(sessionName, "crew") THEN "gt crew at"
    ELSE IF HasSuffixPart(sessionName, "witness") THEN "gt wit at"
    ELSE IF HasSuffixPart(sessionName, "refinery") THEN "gt ref at"
    ELSE "unknown session type"

(* The process environment of a gt invocation.                             *)
Env(rig, crew, polecat, cwdCrew, inTmux, pane, session) ==
    [GT_RIG |-> rig, GT_CREW |-> crew, GT_POLECAT |-> polecat,
     cwdCrew |-> cwdCrew, TMUX |-> inTmux, TMUX_PANE |-> pane,
     session |-> session]

Envs ==
    { Env("rigA", "joe", "", <<>>, TRUE, "%1", <<"gt", "rigA", "crew", "joe">>),
      Env("rigA", "", "nux", <<>>, TRUE, "%2", <<"gt", "rigA", "nux">>),
      Env("", "", "", <<>>, TRUE, "%0", <<"gt", "mayor">>),
      Env("", "", "", <<>>, FALSE, "", NoSession),
      Env("rigA", "joe", "", <<>>, FALSE, "", NoSession),
      Env("rigA", "joe", "", <<>>, TRUE, "%5", <<"main">>) }

(* The callers of sling: those of Envs, and the mayor working, in the     *)
(* mayor's session, from inside the clone of crew member joe.              *)
SlingEnvs ==
    Envs \cup { Env("", "", "", <<"rigA", "joe">>, TRUE, "%0", <<"gt", "mayor">>) }

Unresolved == <<>>

detectAgentIdentity(env) ==
    IF env.GT_CREW # "" /\ env.GT_RIG # ""
    THEN <<env.GT_RIG, "crew", env.GT_CREW>>
    ELSE IF env.GT_POLECAT # "" /\ env.GT_RIG # ""
    THEN <<env.GT_RIG, "polecats", env.GT_POLECAT>>
    ELSE IF env.cwdCrew # <<>>
    THEN <<env.cwdCrew[1], "crew", env.cwdCrew[2]>>
    ELSE IF env.TMUX /\ env.session # NoSession
    THEN IF env.session = <<"gt", "mayor">> THEN <<"mayor">>
         ELSE IF env.session = <<"gt", "deacon">> THEN <<"deacon">>
         ELSE IF HasSuffixPart(env.session, "witness")
         THEN TrimSuffixPart(TrimPrefixGt(env.session), "witness") \o <<"witness">>
         ELSE IF HasSuffixPart(env.session, "refinery")
         THEN TrimSuffixPart(TrimPrefixGt(env.session), "refinery") \o <<"refinery">>
         ELSE Unresolved
    ELSE Unresolved

AgentIds == {detectAgentIdentity(e) : e \in Envs} \ {Unresolved}

----------------------------------------------------------------------------
(* WorkHook: one slot per agent identity.                                  *)

NoHook == [agent |-> <<>>, bead_id |-> <<>>, subject |-> "", context |-> "",
           created_at |-> 0]

HookSlot(agentID) == {h \in hooks : h.agent = agentID}

WriteSlungWork_Add(agentID, sw) == hooks \cup {sw}

\* wisp.WriteSlungWork: the record replaces whatever the slot held.
WriteSlungWork(agentID, sw) == (hooks \ HookSlot(agentID)) \cup {sw}

NoHookCall == [op |-> "none", agent |-> <<>>, found |-> FALSE, rec |-> NoHook,
               expected |-> NoHook, before |-> {}]

(* The start-up sequence of a session reads its identity's slot and burns it. *)
Consume(agentID) ==
    /\ IF HookSlot(agentID) = {}
       THEN /\ UNCHANGED <<hooks, delivered>>
            /\ lastHook' = [NoHookCall EXCEPT !.op = "consume", !.agent = agentID,
                                !.expected = attached[agentID], !.before = hooks]
       ELSE \E h \in HookSlot(agentID) :
            /\ hooks' = hooks \ HookSlot(agentID)
            /\ delivered' = [delivered EXCEPT ![h.created_at] = @ + 1]
            /\ lastHook' = [NoHookCall EXCEPT !.op = "consume", !.agent = agentID,
                                !.found = TRUE, !.rec = h,
                                !.expected = attached[agentID], !.before = hooks]
    /\ attached' = [attached EXCEPT ![agentID] = NoHook]
    /\ UNCHANGED <<sl, clock, lost>>
    /\ UNCHANGED <<convoys, issues, lastConvoy, queueVars, recycleVars, hostVars>>

----------------------------------------------------------------------------
(* HandoffController: gt sling <bead-id> [-s subject] [-m message] [-n].    *)

\* Longest run of hook records created in one behaviour.
MaxSlings == 2

SlingBeads == {<<"gt", "a">>, <<"gt", "zz">>}

SlingTexts == {[subject |-> "Fix the bug", message |-> "Check tests too"]}

\* What can go wrong outside the program during one sling.
SlingFaults == {"none", "bd-show-crash", "not-a-git-clone", "wisp-write-error"}

NoRestart == [pane |-> "", cmd |-> ""]

\* What the preview of an invocation reported, when the invocation is the
\* commitment of a preview with the same arguments.
NoPreview == [seen |-> FALSE, err |-> ""]

\* The sling about to start is the commitment of the preview that has just
\* finished: same caller, same arguments, same answers of the store.
Rehearsed(env, beadID, texts, dryRun, fault) ==
    /\ sl.pc = "done" /\ sl.dryRun /\ ~dryRun
    /\ sl.env = env /\ sl.beadID = beadID
    /\ sl.texts = texts /\ sl.fault = fault

IdleSling ==
    [pc |-> "idle", env |-> Env("", "", "", <<>>, FALSE, "", NoSession),
     beadID |-> <<>>, agentID |-> Unresolved, texts |-> [subject |-> "", message |-> ""],
     dryRun |-> FALSE, fault |-> "none", preview |-> NoPreview,
     err |-> "", stamp |-> 0, wrote |-> FALSE,
     mail |-> "none", restart |-> NoRestart]

SlungWork_NoTexts(beadID, agentID, texts, t) ==
    [agent |-> agentID, bead_id |-> beadID, subject |-> "", context |-> "",
     created_at |-> t]

\* wisp.NewSlungWork plus the Subject / Context assignments of runSling.
SlungWork(beadID, agentID, texts, t) ==
    [agent |-> agentID, bead_id |-> beadID, subject |-> texts.subject,
     context |-> texts.message, created_at |-> t]

runSling_WriteHook_Skipped(agentID, sw) == hooks

runSling_WriteHook_KeepsOlder(agentID, sw) ==
    IF HookSlot(agentID) # {} THEN hooks ELSE WriteSlungWork(agentID, sw)

\* The hook store after "Write the wisp to the hook" succeeded.
runSling_WriteHook(agentID, sw) == WriteSlungWork(agentID, sw)

SlingAttach_WritesBeforeBeadCheck(env, beadID, texts, dryRun, fault) ==
    /\ sl.pc \in {"idle", "done"}
    /\ LET agentID == detectAgentIdentity(env)
           sw == SlungWork(beadID, agentID, texts, clock + 1)
           started == [IdleSling EXCEPT !.env = env, !.beadID = beadID,
                                        !.texts = texts, !.dryRun = dryRun,
                                        !.fault = fault,
                                        !.preview =
                                            IF Rehearsed(env, beadID, texts, dryRun, fault)
                                            THEN [seen |-> TRUE, err |-> sl.err]
                                            ELSE NoPreview]
           failed(e) == [started EXCEPT !.pc = "done", !.err = e]
       IN IF beadID \notin IssueIds \/ fault = "bd-show-crash"
          THEN /\ sl' = failed("bead-not-found")
               /\ hooks' = IF agentID = Unresolved THEN hooks
                           ELSE runSling_WriteHook(agentID, sw)
               /\ UNCHANGED <<clock, attached, lost, lastHook>>
          ELSE IF agentID = Unresolved
          THEN /\ sl' = failed("identity-unresolved")
               /\ UNCHANGED <<hooks, clock, attached, lost, lastHook>>
          ELSE IF fault = "not-a-git-clone"
          THEN /\ sl' = [failed("no-clone-root") EXCEPT !.agentID = agentID]
               /\ UNCHANGED <<hooks, clock, attached, lost, lastHook>>
          ELSE IF dryRun
          THEN /\ sl' = [started EXCEPT !.pc = "done", !.agentID = agentID]
               /\ UNCHANGED <<hooks, clock, attached, lost, lastHook>>
          ELSE IF fault = "wisp-write-error"
          THEN /\ sl' = [failed("writing-wisp") EXCEPT !.agentID = agentID]
               /\ UNCHANGED <<hooks, clock, attached, lost, lastHook>>
          ELSE /\ clock < MaxSlings
               /\ hooks' = runSling_WriteHook(agentID, sw)
               /\ clock' = clock + 1
               /\ attached' = [attached EXCEPT ![agentID] =
                                  [agent |-> agentID, bead_id |-> beadID,
                                   subject |-> texts.subject,
                                   context |-> texts.message,
                                   created_at |-> clock + 1]]
               /\ lost' = lost \cup {h.created_at : h \in HookSlot(agentID)}
               /\ lastHook' = [NoHookCall EXCEPT !.op = "write", !.agent = agentID,
                                   !.rec = sw, !.before = hooks]
               /\ sl' = [started EXCEPT !.pc = "handoff", !.agentID = agentID,
                                        !.stamp = clock + 1,
                                        !.wrote = (sw \in hooks')]
    /\ UNCHANGED delivered
    /\ UNCHANGED <<convoys, issues, lastConvoy, queueVars, recycleVars, hostVars>>

(* runSling up to the hand-over to triggerHandoff: the bead and identity   *)
(* checks, the --dry-run return and the hook write.                        *)
SlingAttach(env, beadID, texts, dryRun, fault) ==
    /\ sl.pc \in {"idle", "done"}
    /\ LET agentID == detectAgentIdentity(env)
           sw == SlungWork(beadID, agentID, texts, clock + 1)
           started == [IdleSling EXCEPT !.env = env, !.beadID = beadID,
                                        !.texts = texts, !.dryRun = dryRun,
                                        !.fault = fault,
                                        !.preview =
                                            IF Rehearsed(env, beadID, texts, dryRun, fault)
                                            THEN [seen |-> TRUE, err |-> sl.err]
                                            ELSE NoPreview]
           failed(e) == [started EXCEPT !.pc = "done", !.err = e]
       IN IF beadID \notin IssueIds \/ fault = "bd-show-crash"
          THEN /\ sl' = failed("bead-not-found")
               /\ UNCHANGED <<hooks, clock, attached, lost, lastHook>>
          ELSE IF agentID = Unresolved
          THEN /\ sl' = failed("identity-unresolved")
               /\ UNCHANGED <<hooks, clock, attached, lost, lastHook>>
          ELSE IF fault = "not-a-git-clone"
          THEN /\ sl' = [failed("no-clone-root") EXCEPT !.agentID = agentID]
               /\ UNCHANGED <<hooks, clock, attached, lost, lastHook>>
          ELSE IF dryRun
          THEN /\ sl' = [started EXCEPT !.pc = "done", !.agentID = agentID]
               /\ UNCHANGED <<hooks, clock, attached, lost, lastHook>>
          ELSE IF fault = "wisp-write-error"
          THEN /\ sl' = [failed("writing-wisp") EXCEPT !.agentID = agentID]
               /\ UNCHANGED <<hooks, clock, attached, lost, lastHook>>
          ELSE /\ clock < MaxSlings
               /\ hooks' = runSling_WriteHook(agentID, sw)
               /\ clock' = clock + 1
               /\ attached' = [attached EXCEPT ![agentID] =
                                  [agent |-> agentID, bead_id |-> beadID,
                                   subject |-> texts.subject,
                                   context |-> texts.message,
                                   created_at |-> clock + 1]]
               /\ lost' = lost \cup {h.created_at : h \in HookSlot(agentID)}
               /\ lastHook' = [NoHookCall EXCEPT !.op = "write", !.agent = agentID,
                                   !.rec = sw, !.before = hooks]
               /\ sl' = [started EXCEPT !.pc = "handoff", !.agentID = agentID,
                                        !.stamp = clock + 1,
                                        !.wrote = (sw \in hooks')]
    /\ UNCHANGED delivered
    /\ UNCHANGED <<convoys, issues, lastConvoy, queueVars, recycleVars, hostVars>>

TriggerHandoff_MailFatal(mailOK, respawnOK) ==
    /\ sl.pc = "handoff"
    /\ LET failed(e) == [sl EXCEPT !.pc = "done", !.err = e]
           restartCmd == buildRestartCommand(sl.env.session)
       IN sl' =
          IF sl.env.GT_POLECAT # "" THEN failed("polecats-cannot-sling")
          ELSE IF ~sl.env.TMUX THEN failed("not-in-tmux")
          ELSE IF sl.env.TMUX_PANE = "" THEN failed("no-pane")
          ELSE IF sl.env.session = NoSession THEN failed("getting-session")
          ELSE IF restartCmd = "unknown session type" THEN failed("unknown-session-type")
          ELSE IF ~mailOK THEN [failed("sending-handoff-mail") EXCEPT !.mail = "failed"]
          ELSE [sl EXCEPT !.pc = "done",
                          !.mail = "sent",
                          !.err = IF respawnOK THEN "" ELSE "respawn-failed",
                          !.restart = IF respawnOK
                                      THEN [pane |-> sl.env.TMUX_PANE, cmd |-> restartCmd]
                                      ELSE NoRestart]
    /\ UNCHANGED <<hooks, clock, attached, delivered, lost, lastHook>>
    /\ UNCHANGED <<convoys, issues, lastConvoy, queueVars, recycleVars, hostVars>>

(* triggerHandoff: the role, tmux and session checks, the hand-off mail    *)
(* and the respawn of the caller's pane.                                   *)
TriggerHandoff(mailOK, respawnOK) ==
    /\ sl.pc = "handoff"
    /\ LET failed(e) == [sl EXCEPT !.pc = "done", !.err = e]
           restartCmd == buildRestartCommand(sl.env.session)
       IN sl' =
          IF sl.env.GT_POLECAT # "" THEN failed("polecats-cannot-sling")
          ELSE IF ~sl.env.TMUX THEN failed("not-in-tmux")
          ELSE IF sl.env.TMUX_PANE = "" THEN failed("no-pane")
          ELSE IF sl.env.session = NoSession THEN failed("getting-session")
          ELSE IF restartCmd = "unknown session type" THEN failed("unknown-session-type")
          ELSE [sl EXCEPT !.pc = "done",
                          !.mail = IF mailOK THEN "sent" ELSE "failed",
                          !.err = IF respawnOK THEN "" ELSE "respawn-failed",
                          !.restart = IF respawnOK
                                      THEN [pane |-> sl.env.TMUX_PANE, cmd |-> restartCmd]
                                      ELSE NoRestart]
    /\ UNCHANGED <<hooks, clock, attached, delivered, lost, lastHook>>
    /\ UNCHANGED <<convoys, issues, lastConvoy, queueVars, recycleVars, hostVars>>

----------------------------------------------------------------------------
(* HandoffController: gt recycle [role | session] [-w] [-n].               *)

\* The argument of recycle, as the list of its dash-separated parts; no
\* argument is the empty list.
NoArg == <<>>

RecycleArgs ==
    {NoArg, <<"mayor">>, <<"Deacon">>, <<"crew">>, <<"wit">>, <<"refinery">>,
     <<"gt", "rigA", "witness">>, <<"gt", "rigA", "nux">>,
     <<"gt", "rigA", "crew", "witness">>}

\* Callers of recycle: those of sling, a witness, a crew member known only
\* by its working directory, and a caller whose pane id is not set.
RecycleEnvs ==
    Envs \cup
    { Env("rigA", "", "", <<>>, TRUE, "%3", <<"gt", "rigA", "witness">>),
      Env("", "", "", <<"rigA", "max">>, TRUE, "%4", <<"main">>),
      Env("", "", "", <<>>, TRUE, "", <<"gt", "mayor">>) }

\* Sessions that start and exit while the model runs.
TargetSessions ==
    {<<"gt", "mayor">>, <<"gt", "rigA", "witness">>, <<"gt", "rigA", "crew", "joe">>}

\* What can go wrong in tmux during one recycle.
RecycleFaults ==
    {"none", "has-session-error", "pane-lookup-error", "respawn-error", "switch-error"}

\* strings.ToLower on the words used as arguments.
ToLower(word) ==
    CASE word = "Deacon" -> "deacon"
      [] word = "Mayor" -> "mayor"
      [] OTHER -> word

resolveRoleToSession_RigOptional(role, env) ==
    LET word == IF Len(role) = 1 THEN ToLower(role[1]) ELSE ""
        fromEnv == env.GT_RIG # "" /\ env.GT_CREW # ""
        fromCwd == ~fromEnv /\ env.cwdCrew # <<>>
        rig == IF fromCwd THEN env.cwdCrew[1] ELSE env.GT_RIG
        crewName == IF fromCwd THEN env.cwdCrew[2] ELSE env.GT_CREW
    IN IF word \in {"mayor", "may"} THEN <<"gt", "mayor">>
       ELSE IF word \in {"deacon", "dea"} THEN <<"gt", "deacon">>
       ELSE IF word = "crew"
       THEN IF rig = "" \/ crewName = "" THEN NoSession
            ELSE <<"gt", rig, "crew", crewName>>
       ELSE IF word \in {"witness", "wit"} THEN <<"gt", env.GT_RIG, "witness">>
       ELSE IF word \in {"refinery", "ref"} THEN <<"gt", env.GT_RIG, "refinery">>
       ELSE role

\* The session a role word stands for; NoSession when the role needs a rig
\* (and a crew name) that the environment does not give.  Anything that is
\* not a role word is returned as it is.
resolveRoleToSession(role, env) ==
    LET word == IF Len(role) = 1 THEN ToLower(role[1]) ELSE ""
        fromEnv == env.GT_RIG # "" /\ env.GT_CREW # ""
        fromCwd == ~fromEnv /\ env.cwdCrew # <<>>
        rig == IF fromCwd THEN env.cwdCrew[1] ELSE env.GT_RIG
        crewName == IF fromCwd THEN env.cwdCrew[2] ELSE env.GT_CREW
    IN IF word \in {"mayor", "may"} THEN <<"gt", "mayor">>
       ELSE IF word \in {"deacon", "dea"} THEN <<"gt", "deacon">>
       ELSE IF word = "crew"
       THEN IF rig = "" \/ crewName = "" THEN NoSession
            ELSE <<"gt", rig, "crew", crewName>>
       ELSE IF word \in {"witness", "wit"}
       THEN IF env.GT_RIG = "" THEN NoSession ELSE <<"gt", env.GT_RIG, "witness">>
       ELSE IF word \in {"refinery", "ref"}
       THEN IF env.GT_RIG = "" THEN NoSession ELSE <<"gt", env.GT_RIG, "refinery">>
       ELSE role

\* The first pane of a running session.
getSessionPane(sessionName) ==
    CASE sessionName = <<"gt", "mayor">> -> "%0"
      [] sessionName = <<"gt", "rigA", "crew", "joe">> -> "%1"
      [] sessionName = <<"gt", "rigA", "witness">> -> "%3"
      [] OTHER -> "%9"

recycleRemoteSession_HasSession_Skipped(targetSession, fault) ==
    IF fault = "has-session-error" THEN "checking-session" ELSE ""

\* The existence check that opens recycleRemoteSession: "" when the target
\* is running, else the error returned.
recycleRemoteSession_HasSession(targetSession, fault) ==
    IF fault = "has-session-error" THEN "checking-session"
    ELSE IF targetSession \notin sessions THEN "session-not-found"
    ELSE ""

IdleRecycle ==
    [pc |-> "idle", env |-> Env("", "", "", <<>>, FALSE, "", NoSession),
     arg |-> NoArg, watch |-> TRUE, dryRun |-> FALSE,
     target |-> NoSession, cmd |-> "", checked |-> FALSE, live |-> FALSE,
     pane |-> "", paneGone |-> FALSE, attempts |-> 0, preview |-> NoPreview,
     err |-> "", restart |-> NoRestart, switch |-> "none"]

(* runRecycle, and for another session the existence check that opens     *)
(* recycleRemoteSession.  Recycling the caller's own session ends here.    *)
RecycleStart(env, arg, watch, dryRun, fault) ==
    /\ \/ rc.pc = "idle"
       \/ /\ rc.pc = "done" /\ rc.dryRun /\ ~dryRun
          /\ rc.env = env /\ rc.arg = arg /\ rc.watch = watch
    /\ LET started == [IdleRecycle EXCEPT !.env = env, !.arg = arg,
                                          !.watch = watch, !.dryRun = dryRun,
                                          !.preview =
                                              IF rc.pc = "done"
                                              THEN [seen |-> TRUE, err |-> rc.err]
                                              ELSE NoPreview]
           failed(r, e) == [r EXCEPT !.pc = "done", !.err = e]
           targetSession == IF arg = NoArg THEN env.session
                            ELSE resolveRoleToSession(arg, env)
           restartCmd == buildRestartCommand(targetSession)
           resolved == [started EXCEPT !.target = targetSession,
                                       !.live = targetSession \in sessions]
           built == [resolved EXCEPT !.cmd = restartCmd]
           exists == recycleRemoteSession_HasSession(targetSession, fault)
       IN rc' =
          IF ~env.TMUX THEN failed(started, "not-in-tmux")
          ELSE IF env.TMUX_PANE = "" THEN failed(started, "no-pane")
          ELSE IF env.session = NoSession THEN failed(started, "getting-session")
          ELSE IF targetSession = NoSession THEN failed(started, "identity-unresolved")
          ELSE IF restartCmd = "unknown session type"
          THEN failed(resolved, "unknown-session-type")
          ELSE IF targetSession # env.session
          THEN IF exists # ""
               THEN failed([built EXCEPT !.checked = TRUE], exists)
               ELSE [built EXCEPT !.pc = "remote", !.checked = TRUE]
          ELSE IF dryRun THEN [built EXCEPT !.pc = "done"]
          ELSE IF fault = "respawn-error"
          THEN failed([built EXCEPT !.attempts = 1], "respawn-failed")
          ELSE [built EXCEPT !.pc = "done", !.attempts = 1,
                             !.restart = [pane |-> env.TMUX_PANE, cmd |-> restartCmd]]
    /\ UNCHANGED sessions
    /\ UNCHANGED <<convoys, issues, lastConvoy, queueVars, slingVars, hostVars>>

RecycleRemote_DryRunIgnored(fault) ==
    /\ rc.pc = "remote"
    /\ rc' = IF rc.target \notin sessions \/ fault = "pane-lookup-error"
             THEN [rc EXCEPT !.pc = "done", !.err = "getting-target-pane"]
             ELSE [rc EXCEPT !.pc = "respawn", !.pane = getSessionPane(rc.target)]
    /\ UNCHANGED sessions
    /\ UNCHANGED <<convoys, issues, lastConvoy, queueVars, slingVars, hostVars>>

(* recycleRemoteSession after the existence check: the lookup of the       *)
(* target's pane and the --dry-run return.                                 *)
RecycleRemote(fault) ==
    /\ rc.pc = "remote"
    /\ rc' = IF rc.target \notin sessions \/ fault = "pane-lookup-error"
             THEN [rc EXCEPT !.pc = "done", !.err = "getting-target-pane"]
             ELSE IF rc.dryRun
             THEN [rc EXCEPT !.pc = "done", !.pane = getSessionPane(rc.target)]
             ELSE [rc EXCEPT !.pc = "respawn", !.pane = getSessionPane(rc.target)]
    /\ UNCHANGED sessions
    /\ UNCHANGED <<convoys, issues, lastConvoy, queueVars, slingVars, hostVars>>

RecycleRespawn_IgnoresDeadPane(fault) ==
    /\ rc.pc = "respawn"
    /\ rc' = [rc EXCEPT !.pc = "done", !.attempts = @ + 1,
                        !.restart = [pane |-> rc.pane, cmd |-> rc.cmd],
                        !.switch = IF ~rc.watch THEN "none"
                                   ELSE IF fault = "switch-error" THEN "failed"
                                   ELSE "ok"]
    /\ UNCHANGED sessions
    /\ UNCHANGED <<convoys, issues, lastConvoy, queueVars, slingVars, hostVars>>

RecycleRespawn_RespawnsCaller(fault) ==
    /\ rc.pc = "respawn"
    /\ rc' = IF rc.paneGone \/ fault = "respawn-error"
             THEN [rc EXCEPT !.pc = "done", !.err = "respawning-pane",
                             !.attempts = @ + 1]
             ELSE [rc EXCEPT !.pc = "done", !.attempts = @ + 1,
                             !.restart = [pane |-> rc.env.TMUX_PANE, cmd |-> rc.cmd],
                             !.switch = IF ~rc.watch THEN "none"
                                        ELSE IF fault = "switch-error" THEN "failed"
                                        ELSE "ok"]
    /\ UNCHANGED sessions
    /\ UNCHANGED <<convoys, issues, lastConvoy, queueVars, slingVars, hostVars>>

RecycleRespawn_SwitchFatal(fault) ==
    /\ rc.pc = "respawn"
    /\ rc' = IF rc.paneGone \/ fault = "respawn-error"
             THEN [rc EXCEPT !.pc = "done", !.err = "respawning-pane",
                             !.attempts = @ + 1]
             ELSE [rc EXCEPT !.pc = "done", !.attempts = @ + 1,
                             !.restart = [pane |-> rc.pane, cmd |-> rc.cmd],
                             !.err = IF rc.watch /\ fault = "switch-error"
                                     THEN "switching-client" ELSE "",
                             !.switch = IF ~rc.watch THEN "none"
                                        ELSE IF fault = "switch-error" THEN "failed"
                                        ELSE "ok"]
    /\ UNCHANGED sessions
    /\ UNCHANGED <<convoys, issues, lastConvoy, queueVars, slingVars, hostVars>>

(* The end of recycleRemoteSession: the respawn of the pane that was found, *)
(* which fails when that pane has gone with its session, and the switch of *)
(* the caller's view, whose failure is only noted.                         *)
RecycleRespawn(fault) ==
    /\ rc.pc = "respawn"
    /\ rc' = IF rc.paneGone \/ fault = "respawn-error"
             THEN [rc EXCEPT !.pc = "done", !.err = "respawning-pane",
                             !.attempts = @ + 1]
             ELSE [rc EXCEPT !.pc = "done", !.attempts = @ + 1,
                             !.restart = [pane |-> rc.pane, cmd |-> rc.cmd],
                             !.switch = IF ~rc.watch THEN "none"
                                        ELSE IF fault = "switch-error" THEN "failed"
                                        ELSE "ok"]
    /\ UNCHANGED sessions
    /\ UNCHANGED <<convoys, issues, lastConvoy, queueVars, slingVars, hostVars>>

(* Sessions come and go on their own.                                      *)
SessionStarts(s) ==
    /\ s \notin sessions
    /\ sessions' = sessions \cup {s}
    /\ UNCHANGED rc
    /\ UNCHANGED <<convoys, issues, lastConvoy, queueVars, slingVars, hostVars>>

(* A session that exits takes its panes with it: a pane id a recycle has  *)
(* already looked up is dead from then on, also if the session comes back. *)
SessionExits(s) ==
    /\ s \in sessions
    /\ sessions' = sessions \ {s}
    /\ rc' = IF rc.pc = "respawn" /\ s = rc.target
             THEN [rc EXCEPT !.paneGone = TRUE]
             ELSE rc
    /\ UNCHANGED <<convoys, issues, lastConvoy, queueVars, slingVars, hostVars>>

----------------------------------------------------------------------------
(* The store-failure classifier of package beads. A failure text is a      *)
(* sequence of fragments; NilError is the absent error.                    *)

MaxWords == 2

ErrWords ==
    {"bd create:", "panic:", "runtime error:", "index out of range",
     "invalid memory address nil pointer dereference",
     "signal SIGSEGV: segmentation violation", "signal: killed",
     "some dolt error", "table 'wisps' does not exist",
     "github.com/dolthub/dolt/go/libraries/doltcore/doltdb.(*DoltDB).SetCrashOnFatalError",
     "UNIQUE constraint failed", "not found"}

NilError == [nil |-> TRUE, text |-> <<>>]

Error(text) == [nil |-> FALSE, text |-> text]

Errors ==
    {NilError} \cup
    UNION {{Error(t) : t \in [1..n -> ErrWords]} : n \in 1..MaxWords}

\* strings.Contains(word, marker) for the fragments of ErrWords.
Markers(word) ==
    CASE word = "panic:" -> {"panic"}
      [] word = "runtime error:" -> {"runtime error"}
      [] word = "invalid memory address nil pointer dereference" ->
             {"nil pointer dereference"}
      [] word = "signal SIGSEGV: segmentation violation" -> {"signal", "SIGSEGV"}
      [] word = "signal: killed" -> {"signal"}
      [] word = "table 'wisps' does not exist" -> {"wisps"}
      [] word = "github.com/dolthub/dolt/go/libraries/doltcore/doltdb.(*DoltDB).SetCrashOnFatalError" ->
             {"DoltDB"}
      [] OTHER -> {}

Contains(err, marker) ==
    \E k \in 1..Len(err.text) : marker \in Markers(err.text[k])

isDoltOrWispError_AnyError(err) == ~err.nil

\* True for a failure of the store itself (a crash of bd or Dolt, a missing
\* wisps table), false for nil and for an answer of the store.
isDoltOrWispError(err) ==
    /\ ~err.nil
    /\ \/ Contains(err, "panic")
       \/ Contains(err, "nil pointer dereference")
       \/ Contains(err, "SIGSEGV")
       \/ Contains(err, "signal")
       \/ Contains(err, "runtime error")
       \/ Contains(err, "wisps")
       \/ Contains(err, "DoltDB")

\* The table of TestIsDoltOrWispError.
TestIsDoltOrWispError ==
    { [err |-> NilError, want |-> FALSE],
      [err |-> Error(<<"bd create:", "UNIQUE constraint failed">>), want |-> FALSE],
      [err |-> Error(<<"bd create:", "panic:", "runtime error:",
                       "invalid memory address nil pointer dereference">>),
       want |-> TRUE],
      [err |-> Error(<<"bd create:", "signal SIGSEGV: segmentation violation">>),
       want |-> TRUE],
      [err |-> Error(<<"bd create:", "panic:", "some dolt error">>), want |-> TRUE],
      [err |-> Error(<<"bd create:", "runtime error:", "index out of range">>),
       want |-> TRUE],
      [err |-> Error(<<"bd create:", "signal: killed">>), want |-> TRUE],
      [err |-> Error(<<"bd create:", "table 'wisps' does not exist">>), want |-> TRUE],
      [err |-> Error(<<"github.com/dolthub/dolt/go/libraries/doltcore/doltdb.(*DoltDB).SetCrashOnFatalError">>),
       want |-> TRUE],
      [err |-> Error(<<"bd create:", "not found">>), want |-> FALSE] }

IdleClassify == [pc |-> "idle", err |-> NilError, fault |-> FALSE]

\* A store call failed with cls.err and the caller asks the classifier.
Classify ==
    /\ cls.pc = "failed"
    /\ cls' = [cls EXCEPT !.pc = "classified", !.fault = isDoltOrWispError(cls.err)]
    /\ UNCHANGED <<files, first, ens>>
    /\ UNCHANGED <<convoys, issues, lastConvoy, queueVars, slingVars, recycleVars>>

----------------------------------------------------------------------------
(* The settings file of package claude. A settings path is a directory and *)
(* a file name below the working directory.                                *)

SettingsPaths == {<<".claude", "settings.json">>, <<"my-settings", "config.json">>}

RoleTypes == {"autonomous", "interactive"}

\* What sits at the directory's path: nothing, a writable directory, a
\* directory without write permission, or a regular file.
DirStates == {"absent", "dir", "readonly", "file"}

NoFile == [exists |-> FALSE, content |-> ""]

FileStates ==
    {NoFile} \cup {[exists |-> TRUE, content |-> c] : c \in {"", "custom"}}

\* The template written for a role type; never empty.
TemplateFor(roleType) ==
    IF roleType = "autonomous" THEN "settings-autonomous.json"
    ELSE "settings-interactive.json"

EnsureSettingsAt_Overwrites(fs, roleType) ==
    IF fs.dir = "file" THEN [fs |-> fs, result |-> "mkdir-error"]
    ELSE IF fs.dir = "readonly" /\ ~fs.file.exists
    THEN [fs |-> fs, result |-> "write-error"]
    ELSE [fs |-> [dir |-> IF fs.dir = "absent" THEN "dir" ELSE fs.dir,
                  file |-> [exists |-> TRUE, content |-> TemplateFor(roleType)]],
          result |-> "ok"]

\* EnsureSettingsAt on one settings path in state fs: the state it leaves
\* and what it returns.
EnsureSettingsAt(fs, roleType) ==
    IF fs.file.exists THEN [fs |-> fs, result |-> "ok"]
    ELSE IF fs.dir = "file" THEN [fs |-> fs, result |-> "mkdir-error"]
    ELSE IF fs.dir = "readonly" THEN [fs |-> fs, result |-> "write-error"]
    ELSE [fs |-> [dir |-> "dir",
                  file |-> [exists |-> TRUE, content |-> TemplateFor(roleType)]],
          result |-> "ok"]

NoEnsure ==
    [path |-> <<>>, roleType |-> "", result |-> "none",
     before |-> [dir |-> "absent", file |-> NoFile]]

\* One call of EnsureSettingsAt by a session that starts up.
EnsureSettings(path, roleType) ==
    LET out == EnsureSettingsAt(files[path], roleType) IN
    /\ files' = [files EXCEPT ![path] = out.fs]
    /\ first' = IF ~first[path].exists /\ out.fs.file.exists
                THEN [first EXCEPT ![path] = out.fs.file]
                ELSE first
    /\ ens' = [path |-> path, roleType |-> roleType, result |-> out.result,
               before |-> files[path]]
    /\ UNCHANGED cls
    /\ UNCHANGED <<convoys, issues, lastConvoy, queueVars, slingVars, recycleVars>>

HostInit ==
    /\ cls = IdleClassify
    /\ files = [p \in SettingsPaths |-> [dir |-> "absent", file |-> NoFile]]
    /\ first = [p \in SettingsPaths |-> NoFile]
    /\ ens = NoEnsure


----------------------------------------------------------------------------

SlingInit ==
    /\ hooks = {}
    /\ sl = IdleSling
    /\ clock = 0
    /\ attached = [a \in AgentIds |-> NoHook]
    /\ delivered = [k \in 1..MaxSlings |-> 0]
    /\ lost = {}
    /\ lastHook = NoHookCall

RecycleInit ==
    /\ sessions = {<<"gt", "mayor">>, <<"gt", "rigA", "crew", "joe">>}
    /\ rc = IdleRecycle

CoreInit ==
    /\ convoys = [c \in ConvoyIds |-> NoConvoy]
    /\ issues = [i \in IssueIds |-> [status |-> "open", assignee |-> "", queued |-> FALSE]]
    /\ lastConvoy = NoConvoyCall
    /\ unreadable = {}
    /\ deps = [i \in IssueIds |-> {}]
    /\ backlog = [i \in IssueIds |-> 0]
    /\ qp = [p \in QueueRuns |-> IdleQueue]
    /\ SlingInit
    /\ RecycleInit

Init == CoreInit /\ HostInit

ClassifierInit ==
    /\ CoreInit
    /\ cls \in {[pc |-> "failed", err |-> e, fault |-> FALSE] : e \in Errors}
    /\ files = [p \in SettingsPaths |-> [dir |-> "absent", file |-> NoFile]]
    /\ first = [p \in SettingsPaths |-> NoFile]
    /\ ens = NoEnsure

SpecClassifier == ClassifierInit /\ [][Classify]_vars

SettingsInit ==
    /\ CoreInit
    /\ cls = IdleClassify
    /\ files \in [SettingsPaths -> [dir : DirStates, file : FileStates]]
    /\ \A p \in SettingsPaths : files[p].file.exists => files[p].dir \in {"dir", "readonly"}
    /\ first = [p \in SettingsPaths |-> files[p].file]
    /\ ens = NoEnsure

SettingsNext ==
    \E path \in SettingsPaths, roleType \in RoleTypes : EnsureSettings(path, roleType)

SpecSettings == SettingsInit /\ [][SettingsNext]_vars

ConvoyNext ==
    \/ \E c \in ConvoyIds, title \in {"", "Deploy"}, ids \in SeqsUpTo(IssueIds, MaxArgs) :
           Create(c, title, ids)
    \/ \E c \in ConvoyIds, ids \in SeqsUpTo(IssueIds, MaxArgs) : Track(c, ids)
    \/ \E c \in ConvoyIds : EvaluateLanding(c)
    \/ \E i \in IssueIds, s \in IssueStatuses : SetIssueStatus(i, s)

QueueNext ==
    \/ \E p \in QueueRuns, c \in ConvoyIds, flags \in QueueFlags, fault \in QueueFaults :
           QueueScan(p, c, flags, fault)
    \/ \E p \in QueueRuns, ok \in BOOLEAN : QueuePlace(p, ok)

SlingNext ==
    \/ \E env \in SlingEnvs, beadID \in SlingBeads, texts \in SlingTexts,
          dryRun \in BOOLEAN, fault \in SlingFaults :
           /\ ~Rehearsed(env, beadID, texts, dryRun, fault)
           /\ SlingAttach(env, beadID, texts, dryRun, fault)
    \/ \E mailOK \in BOOLEAN, respawnOK \in BOOLEAN : TriggerHandoff(mailOK, respawnOK)
    \/ \E agentID \in AgentIds : Consume(agentID)

RecycleNext ==
    \/ \E env \in RecycleEnvs, arg \in RecycleArgs, watch \in BOOLEAN,
          dryRun \in BOOLEAN, fault \in {"none", "has-session-error", "respawn-error"} :
           RecycleStart(env, arg, watch, dryRun, fault)
    \/ \E fault \in {"none", "pane-lookup-error"} : RecycleRemote(fault)
    \/ \E fault \in {"none", "respawn-error", "switch-error"} : RecycleRespawn(fault)
    \/ \E s \in TargetSessions : SessionStarts(s)
    \/ \E s \in TargetSessions : SessionExits(s)

HostNext ==
    \/ Classify
    \/ \E path \in SettingsPaths, roleType \in RoleTypes : EnsureSettings(path, roleType)

Next == ConvoyNext \/ QueueNext \/ SlingNext \/ RecycleNext \/ HostNext

Spec == Init /\ [][Next]_vars

SpecConvoy == Init /\ [][ConvoyNext]_vars

(* The tracker with a poller: convoys are created from a list of issues,   *)
(* issues are added one at a time, and evaluateLanding is called again and *)
(* again, so a landing that stays possible is eventually carried out.      *)
LandingNext ==
    \/ \E c \in ConvoyIds, i \in IssueIds, j \in IssueIds : Create(c, "Deploy", <<i, j>>)
    \/ \E c \in ConvoyIds, i \in IssueIds : Track(c, <<i>>)
    \/ \E c \in ConvoyIds : EvaluateLanding(c)
    \/ \E i \in IssueIds, s \in IssueStatuses : SetIssueStatus(i, s)

SpecLanding ==
    Init /\ [][LandingNext]_vars /\ \A c \in ConvoyIds : WF_vars(EvaluateLanding(c))

SpecSling == Init /\ [][SlingNext]_vars

SpecRecycle == Init /\ [][RecycleNext]_vars

(* The two commands that restart a session, side by side: every caller     *)
(* slings bead gt-a, and recycle is run with every argument while the set  *)
(* of running sessions stays as it is.                                     *)
HandoffNext ==
    \/ \E env \in Envs, texts \in SlingTexts :
           SlingAttach(env, <<"gt", "a">>, texts, FALSE, "none")
    \/ \E mailOK \in BOOLEAN, respawnOK \in BOOLEAN : TriggerHandoff(mailOK, respawnOK)
    \/ \E env \in RecycleEnvs, arg \in RecycleArgs, watch \in BOOLEAN,
          dryRun \in BOOLEAN, fault \in {"none", "has-session-error", "respawn-error"} :
           rc.pc = "idle" /\ RecycleStart(env, arg, watch, dryRun, fault)
    \/ \E fault \in {"none", "pane-lookup-error"} : RecycleRemote(fault)
    \/ \E fault \in {"none", "respawn-error", "switch-error"} : RecycleRespawn(fault)

SpecHandoff == Init /\ [][HandoffNext]_vars

(* Sling and recycle with every caller and argument, each run as a preview *)
(* or for real, while the store and tmux answer and no session comes or    *)
(* goes.                                                                   *)
RehearsalNext ==
    \/ \E env \in SlingEnvs, beadID \in SlingBeads, texts \in SlingTexts,
          dryRun \in BOOLEAN :
           SlingAttach(env, beadID, texts, dryRun, "none")
    \/ \E respawnOK \in BOOLEAN : TriggerHandoff(TRUE, respawnOK)
    \/ \E env \in Envs, arg \in {NoArg, <<"mayor">>, <<"crew">>, <<"wit">>},
          dryRun \in BOOLEAN :
           RecycleStart(env, arg, TRUE, dryRun, "none")
    \/ RecycleRemote("none")
    \/ RecycleRespawn("none")

SpecRehearsal == Init /\ [][RehearsalNext]_vars

(* A town at work: convoy hq-cv-1 is open and tracks gt-a and bd-b, both   *)
(* open and unassigned, and bd-b depends on gt-a.                          *)
TownInit ==
    /\ convoys = [c \in ConvoyIds |->
                     [status |-> "open",
                      tracked |-> << <<"gt", "a">>, <<"bd", "b">> >>,
                      landed |-> FALSE]]
    /\ issues = [i \in IssueIds |-> [status |-> "open", assignee |-> "", queued |-> FALSE]]
    /\ lastConvoy = NoConvoyCall
    /\ unreadable = {}
    /\ deps = [i \in IssueIds |-> IF i = <<"bd", "b">> THEN {<<"gt", "a">>} ELSE {}]
    /\ backlog = [i \in IssueIds |-> 0]
    /\ qp = [p \in QueueRuns |-> IdleQueue]
    /\ SlingInit
    /\ RecycleInit
    /\ HostInit

(* The three commands that have a preview mode, each run with and without  *)
(* it: sling of gt-a by every caller in tmux, recycle of the caller or of  *)
(* the mayor's or a crew session, and one queue run.                       *)
PreviewNext ==
    \/ \E env \in {e \in Envs : e.TMUX}, texts \in SlingTexts, dryRun \in BOOLEAN :
           /\ ~Rehearsed(env, <<"gt", "a">>, texts, dryRun, "none")
           /\ SlingAttach(env, <<"gt", "a">>, texts, dryRun, "none")
    \/ \E respawnOK \in BOOLEAN : TriggerHandoff(TRUE, respawnOK)
    \/ \E env \in Envs, arg \in {NoArg, <<"mayor">>, <<"crew">>},
          watch \in BOOLEAN, dryRun \in BOOLEAN :
           rc.pc = "idle" /\ RecycleStart(env, arg, watch, dryRun, "none")
    \/ RecycleRemote("none")
    \/ RecycleRespawn("none")
    \/ \E c \in ConvoyIds, flags \in QueueFlags : QueueScan("q1", c, flags, "none")
    \/ \E ok \in BOOLEAN : QueuePlace("q1", ok)

SpecPreview == TownInit /\ [][PreviewNext]_vars

(* The crew member joe of rigA, in his own session.                        *)
JoeEnv == Env("rigA", "joe", "", <<>>, TRUE, "%1", <<"gt", "rigA", "crew", "joe">>)

(* Everything that goes on around an open convoy: issues are tracked one   *)
(* at a time and closed or reopened by their workers, the poller evaluates *)
(* landing, the convoy is queued, and joe slings gt-a and recycles himself *)
(* or the mayor.                                                           *)
TownNext ==
    \/ \E c \in ConvoyIds, i \in IssueIds : Track(c, <<i>>)
    \/ \E c \in ConvoyIds : EvaluateLanding(c)
    \/ \E i \in IssueIds, s \in {"open", "closed"} : SetIssueStatus(i, s)
    \/ \E c \in ConvoyIds, flags \in QueueFlags : QueueScan("q1", c, flags, "none")
    \/ \E ok \in BOOLEAN : QueuePlace("q1", ok)
    \/ \E texts \in SlingTexts : SlingAttach(JoeEnv, <<"gt", "a">>, texts, FALSE, "none")
    \/ TriggerHandoff(TRUE, TRUE)
    \/ \E arg \in {NoArg, <<"mayor">>} : RecycleStart(JoeEnv, arg, TRUE, FALSE, "none")
    \/ RecycleRemote("none")
    \/ RecycleRespawn("none")

SpecTown == TownInit /\ [][TownNext]_vars

(* The queue command run against any store content: a convoy that tracks   *)
(* some issues, each in any status, assigned or not, queued or not, and at *)
(* most one record the store cannot return.  Issue bd-b depends on gt-a,   *)
(* so it is blocked for as long as gt-a is not closed.                     *)
TrackedLists ==
    {<<>>, << <<"gt", "a">> >>, << <<"gt", "a">>, <<"bd", "b">> >>,
     << <<"hq", "1">>, <<"bd", "b">>, <<"gt", "a">> >>}

QueueInit ==
    /\ \E t \in TrackedLists :
           convoys = [c \in ConvoyIds |->
                         [status |-> "open", tracked |-> t, landed |-> FALSE]]
    /\ issues \in [IssueIds -> [status : {"open", "closed", "tombstone"},
                                assignee : Assignees, queued : BOOLEAN]]
    /\ \A i \in IssueIds :
           i \notin Range(convoys["hq-cv-1"].tracked)
           => issues[i] = [status |-> "open", assignee |-> "", queued |-> FALSE]
    /\ \A i \in IssueIds : issues[i].status = "tombstone" => i = <<"hq", "1">>
    /\ lastConvoy = NoConvoyCall
    /\ unreadable \in {{}} \cup {{i} : i \in IssueIds}
    /\ unreadable \subseteq Range(convoys["hq-cv-1"].tracked)
    /\ deps = [i \in IssueIds |-> IF i = <<"bd", "b">> THEN {<<"gt", "a">>} ELSE {}]
    /\ backlog = [i \in IssueIds |-> 0]
    /\ qp = [p \in QueueRuns |-> IdleQueue]
    /\ SlingInit
    /\ RecycleInit
    /\ HostInit

SpecQueue == QueueInit /\ [][QueueNext]_vars

----------------------------------------------------------------------------
(* Properties of the convoy tracker.                                       *)

LandedStatuses == {"closed", "tombstone"}

EveryTrackedLanded(c) ==
    /\ convoys[c].tracked # <<>>
    /\ \A k \in 1..Len(convoys[c].tracked) :
           issues[convoys[c].tracked[k]].status \in LandedStatuses

NoDuplicates(s) == Cardinality(Range(s)) = Len(s)

\* C1 (as stated): right after any successful track or evaluateLanding call,
\* the convoy is closed if and only if its tracked set is non-empty and
\* every tracked issue is closed or tombstone.
C1_ClosureIffAfterEveryCall ==
    \A c \in ConvoyIds :
        (/\ lastConvoy.convoy = c
         /\ lastConvoy.op \in {"track", "evaluateLanding"}
         /\ convoys[c].status # "none")
        => (convoys[c].status = "closed" <=> EveryTrackedLanded(c))

\* C1 (amended): right after an evaluateLanding call made on an open convoy,
\* the convoy is closed if and only if its tracked set is non-empty and
\* every tracked issue is closed or tombstone; and a closed convoy always
\* has a non-empty tracked set and its landed mark.
C1_ClosureIffAfterLanding ==
    \A c \in ConvoyIds :
        /\ (/\ lastConvoy.convoy = c
            /\ lastConvoy.op = "evaluateLanding"
            /\ lastConvoy.prevStatus = "open")
           => (convoys[c].status = "closed" <=> EveryTrackedLanded(c))
        /\ convoys[c].status = "closed"
           => (convoys[c].tracked # <<>> /\ convoys[c].landed)

C1_Witness ==
    /\ lastConvoy.op = "evaluateLanding"
    /\ lastConvoy.prevStatus = "open"
    /\ convoys[lastConvoy.convoy].status = "closed"
    /\ Len(convoys[lastConvoy.convoy].tracked) = 2

\* C2: a track call on a closed convoy leaves it open, whatever the status
\* of the issues it adds.
C2_TrackReopens ==
    (lastConvoy.op = "track" /\ lastConvoy.prevStatus = "closed")
    => /\ convoys[lastConvoy.convoy].status = "open"
       /\ ~convoys[lastConvoy.convoy].landed

C2_Witness ==
    /\ lastConvoy.op = "track"
    /\ lastConvoy.prevStatus = "closed"
    /\ \A k \in 1..Len(lastConvoy.ids) :
           issues[lastConvoy.ids[k]].status \in LandedStatuses
    /\ convoys[lastConvoy.convoy].status = "open"

\* C3: tracking has set semantics: the tracked list never holds an id twice,
\* a track call adds exactly the ids not yet tracked, a call whose ids are
\* all tracked already changes nothing, and repeating a call changes nothing.
C3_TrackIdempotent ==
    /\ \A c \in ConvoyIds : NoDuplicates(convoys[c].tracked)
    /\ (lastConvoy.op = "track" /\ lastConvoy.result # "NotFoundError")
       => LET now == convoys[lastConvoy.convoy].tracked
              before == lastConvoy.prevTracked
          IN /\ Range(now) = Range(before) \cup Range(lastConvoy.ids)
             /\ SubSeq(now, 1, Len(before)) = before
             /\ Range(lastConvoy.ids) \subseteq Range(before) => now = before
             /\ TrackAdd(now, lastConvoy.ids) = now

C3_Witness ==
    /\ lastConvoy.op = "track"
    /\ lastConvoy.prevTracked # <<>>
    /\ Range(lastConvoy.ids) \subseteq Range(lastConvoy.prevTracked)
    /\ convoys[lastConvoy.convoy].tracked = lastConvoy.prevTracked

\* C4: evaluateLanding closes the convoy and returns the landed payload
\* exactly when the convoy was open and every tracked issue is closed or
\* tombstone; otherwise it returns "no transition" and the status is as before.
C4_LandingExactly ==
    lastConvoy.op = "evaluateLanding"
    => LET c == lastConvoy.convoy
           due == /\ lastConvoy.prevStatus = "open"
                  /\ \A k \in 1..Len(convoys[c].tracked) :
                         issues[convoys[c].tracked[k]].status \in LandedStatuses
       IN /\ lastConvoy.result = "landed" <=> due
          /\ due => /\ convoys[c].status = "closed"
                    /\ convoys[c].landed
                    /\ lastConvoy.payload = convoys[c].tracked
          /\ ~due => /\ lastConvoy.result = "no-transition"
                     /\ convoys[c].status = lastConvoy.prevStatus
                     /\ lastConvoy.payload = <<>>

C4_Witness ==
    /\ lastConvoy.op = "evaluateLanding"
    /\ lastConvoy.result = "landed"
    /\ \E k \in 1..Len(lastConvoy.payload) :
           issues[lastConvoy.payload[k]].status = "tombstone"

C4_WitnessNoTransition ==
    /\ lastConvoy.op = "evaluateLanding"
    /\ lastConvoy.result = "no-transition"
    /\ lastConvoy.prevStatus = "closed"

----------------------------------------------------------------------------
(* Properties of the convoy queue.                                         *)

Scanned(p) == qp[p].pc # "idle" /\ qp[p].err = ""

SkipTotal(scan) ==
    scan.skippedClosed + scan.skippedAssigned + scan.skippedQueued + scan.skippedNoRig

\* C5 (as stated): one run of the queue classifies every tracked issue as a
\* candidate or under exactly one of the four skip counters, so candidates
\* plus the four counters equals the number of tracked issues, also when a
\* per-issue label lookup fails.
C5_DispatchPartition ==
    \A p \in QueueRuns :
        Scanned(p)
        => Len(qp[p].scan.candidates) + SkipTotal(qp[p].scan)
               = Len(qp[p].snap.tracked)

\* C6: a dry run and a real run of the queue made with the same force value
\* against the same store content compute the same candidates (ids and
\* rigs, in the same order) and the same four skip counters.
C6_DryRunEquivalence ==
    \A p, q \in QueueRuns :
        (/\ Scanned(p) /\ Scanned(q)
         /\ qp[p].flags.dryRun /\ ~qp[q].flags.dryRun
         /\ qp[p].flags.force = qp[q].flags.force
         /\ qp[p].convoy = qp[q].convoy
         /\ qp[p].snap = qp[q].snap)
        => qp[p].scan = qp[q].scan

C6_Witness ==
    \E p, q \in QueueRuns :
        /\ Scanned(p) /\ Scanned(q)
        /\ qp[p].flags.dryRun /\ ~qp[q].flags.dryRun
        /\ qp[p].flags.force = qp[q].flags.force
        /\ qp[p].snap = qp[q].snap
        /\ qp[p].scan.skippedQueued = 1
        /\ Len(qp[p].scan.candidates) = 2
        /\ qp[q].pc = "done" /\ qp[q].successCount = 2

----------------------------------------------------------------------------
(* Properties of sling and the hook store.                                 *)

OtherSlots(hs, agentID) == {h \in hs : h.agent # agentID}

\* C7: sling issues the restart only after its hook write has completed:
\* while the restart is still to come the written record is already in the
\* store where any reader finds it, a restart is never issued by a sling
\* that has not written, and right after the write the slot holds the record.
C7_HookBeforeRestart ==
    /\ sl.pc = "handoff" => (sl.wrote /\ sl.restart = NoRestart)
    /\ sl.restart # NoRestart => (sl.pc = "done" /\ sl.wrote /\ ~sl.dryRun)
    /\ lastHook.op = "write" => lastHook.rec \in hooks

C7_Witness ==
    /\ sl.pc = "done"
    /\ sl.restart # NoRestart
    /\ sl.wrote
    /\ lastHook.op = "write"
    /\ lastHook.rec.created_at = sl.stamp
    /\ lastHook.rec \in hooks

\* C8: the first consume after an attach finds the attached record, returns
\* it unchanged and empties the slot; a consume with no attach since the
\* last one finds nothing; no record is returned twice.
C8_ConsumeOnce ==
    /\ \A k \in DOMAIN delivered : delivered[k] <= 1
    /\ lastHook.op = "consume"
       => /\ lastHook.found <=> lastHook.expected # NoHook
          /\ lastHook.found => lastHook.rec = lastHook.expected
          /\ HookSlot(lastHook.agent) = {}

C8_Witness ==
    /\ lastHook.op = "consume"
    /\ ~lastHook.found
    /\ lastHook.agent = sl.agentID
    /\ sl.stamp > 0
    /\ delivered[sl.stamp] = 1
    /\ sl.restart # NoRestart

\* C9: an identity never has more than one hook; a sling for an identity
\* whose hook is still unconsumed replaces it, so the replaced record is
\* never returned by a consume and the next consume returns the newer one;
\* a write or consume for one identity leaves the other identities' hooks
\* as they were.
C9_SingleSlotLastWriterWins ==
    /\ \A a \in AgentIds : Cardinality(HookSlot(a)) <= 1
    /\ \A k \in lost : delivered[k] = 0
    /\ lastHook.op = "write" => HookSlot(lastHook.agent) = {lastHook.rec}
    /\ (lastHook.op = "consume" /\ lastHook.found)
       => lastHook.rec.created_at \notin lost
    /\ lastHook.op # "none"
       => OtherSlots(hooks, lastHook.agent) = OtherSlots(lastHook.before, lastHook.agent)

C9_Witness ==
    /\ lost = {1}
    /\ lastHook.op = "consume"
    /\ lastHook.found
    /\ lastHook.rec.created_at = 2
    /\ delivered[1] = 0

C9_WitnessOtherIdentity ==
    /\ lastHook.op = "write"
    /\ OtherSlots(hooks, lastHook.agent) # {}

\* C10 (as stated): a sling by a polecat ends with the role-not-allowed
\* error having written no hook, sent no notification and issued no restart.
C10_PolecatSlingLeavesHook ==
    (sl.pc = "done" /\ sl.env.GT_POLECAT # "" /\ ~sl.dryRun
        /\ sl.err \notin {"bead-not-found", "identity-unresolved",
                          "no-clone-root", "writing-wisp"})
    => /\ sl.err = "polecats-cannot-sling"
       /\ ~sl.wrote
       /\ sl.mail = "none"
       /\ sl.restart = NoRestart

----------------------------------------------------------------------------
\* C11: sling reports "bead not found", and convoy queue "convoy not
\* found", only when the store really holds no such record; a crash of the
\* store is never reported as the record being absent.
C11_NotFoundOnlyWhenAbsent ==
    /\ (sl.pc = "done" /\ sl.err = "bead-not-found") => sl.beadID \notin IssueIds
    /\ \A p \in QueueRuns :
           qp[p].err = "convoy-not-found" => convoys[qp[p].convoy].status = "none"

----------------------------------------------------------------------------
RECURSIVE SumOver(_, _)
SumOver(f, S) ==
    IF S = {} THEN 0
    ELSE LET x == CHOOSE y \in S : TRUE IN f[x] + SumOver(f, S \ {x})

\* C12: in a queue run that is not a dry run, a failed placement does not
\* stop the loop: while placing, the candidates before `next` have each been
\* attempted once; at the end every candidate has been attempted, queued
\* plus failed is the number of candidates, the run has no error, and the
\* backlog holds exactly the placements the runs count as queued.
C12_PlacementFailuresCollected ==
    /\ \A p \in QueueRuns :
          LET n == Len(qp[p].scan.candidates) IN
          /\ qp[p].pc = "placing" =>
                /\ ~qp[p].flags.dryRun /\ qp[p].err = ""
                /\ qp[p].next <= n
                /\ qp[p].successCount + qp[p].failed = qp[p].next - 1
          /\ (qp[p].pc = "done" /\ ~qp[p].flags.dryRun /\ n > 0) =>
                /\ qp[p].err = ""
                /\ qp[p].next = n + 1
                /\ qp[p].successCount + qp[p].failed = n
    /\ SumOver(backlog, IssueIds) = SumOver([p \in QueueRuns |-> qp[p].successCount], QueueRuns)

\* A run whose first placement failed and whose second succeeded.
C12_Witness ==
    \E p \in QueueRuns :
        /\ qp[p].pc = "done" /\ ~qp[p].flags.dryRun
        /\ Len(qp[p].scan.candidates) = 2
        /\ qp[p].failed = 1 /\ qp[p].successCount = 1
        /\ backlog[qp[p].scan.candidates[1].id] = 0
        /\ backlog[qp[p].scan.candidates[2].id] = 1

----------------------------------------------------------------------------
\* The caller of sling passed every check that precedes the hand-off mail:
\* it is not a polecat, it runs in a tmux pane, and its session name has a
\* restart command.
RestartCommandBuilt(env) ==
    /\ env.GT_POLECAT = "" /\ env.TMUX /\ env.TMUX_PANE # ""
    /\ env.session # NoSession
    /\ buildRestartCommand(env.session) # "unknown session type"

\* C17: once sling has written the hook and built the restart command, the
\* caller's pane is respawned with that command whether the hand-off mail
\* was sent or failed; the only error the run can then end with is the
\* respawn's own, never the mail's.
C17_MailFailureDoesNotStopRestart ==
    (sl.pc = "done" /\ sl.wrote /\ RestartCommandBuilt(sl.env)) =>
        /\ sl.mail \in {"sent", "failed"}
        /\ \/ /\ sl.err = ""
              /\ sl.restart = [pane |-> sl.env.TMUX_PANE,
                                cmd |-> buildRestartCommand(sl.env.session)]
           \/ /\ sl.err = "respawn-failed"
              /\ sl.restart = NoRestart

\* The mail could not be sent and the pane was respawned all the same.
C17_Witness ==
    /\ sl.pc = "done" /\ sl.wrote /\ sl.mail = "failed"
    /\ sl.err = "" /\ sl.restart # NoRestart

----------------------------------------------------------------------------
\* The issue had a blocker that was not closed when the run read the store.
BlockedAtScan(p, id) ==
    \E b \in deps[id] : ~IsClosedStatus(qp[p].snap.issues[b].status)

CandidateIds(p) ==
    {qp[p].scan.candidates[k].id : k \in 1..Len(qp[p].scan.candidates)}

\* C18: the queue takes no account of dependencies: every tracked issue
\* that is open, unassigned (or forced), readable, without the queue label
\* and with a rig is a candidate, blocked or not, and a run that placed all
\* its candidates has put each of them in the backlog.
C18_BlockedIssuesAreQueued ==
    \A p \in QueueRuns :
        (Scanned(p) /\ qp[p].err = "") =>
            /\ \A id \in Range(qp[p].snap.tracked) :
                  LET is == qp[p].snap.issues[id] IN
                  ( /\ ~IsClosedStatus(is.status)
                    /\ (is.assignee = "" \/ qp[p].flags.force)
                    /\ id \notin qp[p].snap.unreadable
                    /\ ~is.queued
                    /\ resolveRigForBead(id) # "" ) => id \in CandidateIds(p)
            /\ (qp[p].pc = "done" /\ ~qp[p].flags.dryRun /\ qp[p].failed = 0) =>
                  \A id \in CandidateIds(p) : backlog[id] >= 1 /\ issues[id].queued

\* A blocked issue and its open blocker were both placed by one run.
C18_Witness ==
    \E p \in QueueRuns :
        /\ qp[p].pc = "done" /\ ~qp[p].flags.dryRun /\ qp[p].failed = 0
        /\ \E id \in CandidateIds(p) :
              /\ BlockedAtScan(p, id)
              /\ deps[id] \subseteq CandidateIds(p)
              /\ backlog[id] >= 1

----------------------------------------------------------------------------
\* The convoy exists, tracks something, all of it is closed or tombstoned,
\* and the last tracker call was not a track.
LandingDue(c) ==
    /\ convoys[c].status # "none"
    /\ convoys[c].tracked # <<>>
    /\ EveryTrackedLanded(c)
    /\ lastConvoy.op # "track"

\* evaluateLanding has just closed the convoy and returned its payload.
LandedNow(c) ==
    /\ convoys[c].status = "closed"
    /\ lastConvoy.op = "evaluateLanding" /\ lastConvoy.convoy = c
    /\ lastConvoy.result = "landed" /\ lastConvoy.payload = convoys[c].tracked

\* C20: under fair polling, if from some point on every tracked issue of a
\* non-empty convoy is closed or tombstoned and nothing more is tracked,
\* then the convoy is eventually closed by an evaluateLanding that returns
\* the landed payload, and it stays closed.
C20_LandingLiveness ==
    \A c \in ConvoyIds :
        <>[]LandingDue(c) => (<>LandedNow(c) /\ <>[](convoys[c].status = "closed"))

\* A convoy of two issues landed when the second of them was closed.
C20_Witness ==
    \E c \in ConvoyIds :
        /\ LandedNow(c)
        /\ Len(convoys[c].tracked) = 2
        /\ lastConvoy.prevStatus = "open"

----------------------------------------------------------------------------
\* The recycle run got as far as naming a target other than the caller's
\* own session, and no session of that name was running.
MissingRemoteTarget ==
    /\ rc.pc = "done"
    /\ rc.target # NoSession /\ rc.target # rc.env.session
    /\ ~rc.live

NothingRestarted == rc.restart = NoRestart /\ rc.switch = "none"

\* C14 (as stated): recycling a target session that does not exist fails
\* with the session-not-found error, whatever the role word or session name
\* given, and issues no restart and no view switch.
C14_MissingTargetIsNotFound ==
    MissingRemoteTarget => (rc.err = "session-not-found" /\ NothingRestarted)

\* C14 (amended): recycling a target session that does not exist issues no
\* restart and no view switch, and fails: with the unknown-session-type
\* error, before any existence check, when the name matches no session
\* pattern; otherwise with the session-not-found error, or with the error
\* of the existence check when tmux could not answer it.
C14_MissingTargetFails ==
    MissingRemoteTarget =>
        /\ NothingRestarted
        /\ IF buildRestartCommand(rc.target) = "unknown session type"
           THEN rc.err = "unknown-session-type" /\ ~rc.checked
           ELSE rc.err \in {"session-not-found", "checking-session"} /\ rc.checked

\* `gt recycle wit` from a rig whose witness is not running.
C14_Witness ==
    /\ MissingRemoteTarget
    /\ rc.arg = <<"wit">> /\ rc.target = <<"gt", "rigA", "witness">>
    /\ rc.err = "session-not-found"

----------------------------------------------------------------------------
\* The recycle run was given an argument and got as far as resolving it.
ResolvedArg ==
    /\ rc.pc # "idle" /\ rc.arg # NoArg
    /\ rc.env.TMUX /\ rc.env.TMUX_PANE # "" /\ rc.env.session # NoSession

\* The run ended on the role it could not resolve, having checked and
\* restarted nothing.
IdentityUnresolved ==
    /\ rc.pc = "done" /\ rc.err = "identity-unresolved"
    /\ rc.target = NoSession /\ ~rc.checked /\ NothingRestarted

\* C16: mayor and deacon resolve to their fixed session in every
\* environment; crew, witness and refinery resolve to the session of the
\* caller's rig (and crew name) when the environment gives them and end
\* the run with identity-unresolved, nothing checked or restarted, when it
\* does not; any other argument is the session name itself.
C16_TargetResolution ==
    ResolvedArg =>
        LET a == rc.arg
            e == rc.env
            crewByEnv == e.GT_RIG # "" /\ e.GT_CREW # ""
        IN  /\ a \in {<<"mayor">>, <<"Mayor">>, <<"may">>} => rc.target = <<"gt", "mayor">>
            /\ a \in {<<"deacon">>, <<"Deacon">>, <<"dea">>} => rc.target = <<"gt", "deacon">>
            /\ a \in {<<"witness">>, <<"wit">>} =>
                  IF e.GT_RIG # "" THEN rc.target = <<"gt", e.GT_RIG, "witness">>
                  ELSE IdentityUnresolved
            /\ a \in {<<"refinery">>, <<"ref">>} =>
                  IF e.GT_RIG # "" THEN rc.target = <<"gt", e.GT_RIG, "refinery">>
                  ELSE IdentityUnresolved
            /\ a = <<"crew">> =>
                  IF crewByEnv THEN rc.target = <<"gt", e.GT_RIG, "crew", e.GT_CREW>>
                  ELSE IF e.cwdCrew # <<>>
                  THEN rc.target = <<"gt", e.cwdCrew[1], "crew", e.cwdCrew[2]>>
                  ELSE IdentityUnresolved
            /\ Len(a) > 1 => rc.target = a
            /\ rc.err = "identity-unresolved" =>
                  a \in {<<"witness">>, <<"wit">>, <<"refinery">>, <<"ref">>, <<"crew">>}

\* The mayor, who has no rig, asked for the witness to be recycled.
C16_Witness ==
    /\ ResolvedArg /\ IdentityUnresolved
    /\ rc.arg = <<"wit">> /\ rc.env.GT_RIG = ""

----------------------------------------------------------------------------
\* The role a session name shows by its shape: gt-mayor, gt-deacon,
\* gt-<rig>-crew-<name>, gt-<rig>-witness, gt-<rig>-refinery.
SessionRole(name) ==
    CASE name = <<"gt", "mayor">> -> "mayor"
      [] name = <<"gt", "deacon">> -> "deacon"
      [] Len(name) = 4 /\ name[1] = "gt" /\ name[3] = "crew" -> "crew"
      [] Len(name) = 3 /\ name[1] = "gt" /\ name[3] = "witness" -> "witness"
      [] Len(name) = 3 /\ name[1] = "gt" /\ name[3] = "refinery" -> "refinery"
      [] OTHER -> "unknown"

AttachCommand(role) ==
    CASE role = "mayor" -> "gt may at"
      [] role = "deacon" -> "gt dea at"
      [] role = "crew" -> "gt crew at"
      [] role = "witness" -> "gt wit at"
      [] role = "refinery" -> "gt ref at"

\* The sling run reached the construction of the restart command.
SlingReachedBuild ==
    /\ sl.pc = "done" /\ sl.wrote
    /\ sl.env.GT_POLECAT = "" /\ sl.env.TMUX /\ sl.env.TMUX_PANE # ""
    /\ sl.env.session # NoSession

\* C15: the restart command built for a session is the attach command of
\* the role its name shows, and a name that shows no role gets the
\* unknown-session-type error; a recycle or a sling that ends on that error
\* has restarted nothing, and a restart that was issued carries the command
\* of the role.
C15_RestartCommandByPattern ==
    /\ (rc.pc # "idle" /\ rc.target # NoSession) =>
          IF SessionRole(rc.target) = "unknown"
          THEN /\ rc.pc = "done" /\ rc.err = "unknown-session-type"
               /\ rc.cmd = "" /\ NothingRestarted
          ELSE /\ rc.cmd = AttachCommand(SessionRole(rc.target))
               /\ rc.err # "unknown-session-type"
               /\ rc.restart # NoRestart => rc.restart.cmd = rc.cmd
    /\ SlingReachedBuild =>
          IF SessionRole(sl.env.session) = "unknown"
          THEN /\ sl.err = "unknown-session-type"
               /\ sl.restart = NoRestart /\ sl.mail = "none"
          ELSE /\ sl.err # "unknown-session-type"
               /\ sl.restart # NoRestart =>
                     sl.restart.cmd = AttachCommand(SessionRole(sl.env.session))

\* A recycle of a polecat's session and a sling from a session called
\* "main" both ended on the unknown-session-type error.
C15_Witness ==
    /\ rc.pc = "done" /\ rc.target = <<"gt", "rigA", "nux">>
    /\ rc.err = "unknown-session-type"
    /\ SlingReachedBuild /\ sl.env.session = <<"main">>
    /\ sl.err = "unknown-session-type"

----------------------------------------------------------------------------
\* The step was taken by a sling, a recycle or a queue run in preview mode.
PreviewStep ==
    \/ sl' # sl /\ sl'.dryRun
    \/ rc' # rc /\ rc'.dryRun
    \/ \E p \in QueueRuns : qp'[p] # qp[p] /\ qp'[p].flags.dryRun

\* C13: a step of a command run in preview mode leaves the hook slots, the
\* sessions and the issue store as they were, and the run records no hook
\* write, no hand-off mail, no restart, no view switch and no placement.
C13_PreviewChangesNothing ==
    [][PreviewStep =>
          /\ UNCHANGED <<hooks, attached, sessions, issues, deps, backlog, convoys>>
          /\ (sl' # sl) =>
                /\ sl'.pc = "done" /\ ~sl'.wrote
                /\ sl'.mail = "none" /\ sl'.restart = NoRestart
          /\ (rc' # rc) => rc'.restart = NoRestart /\ rc'.switch = "none"
          /\ \A p \in QueueRuns :
                (qp'[p] # qp[p]) =>
                    qp'[p].pc = "done" /\ qp'[p].successCount = 0 /\ qp'[p].failed = 0
      ]_vars

\* With a hook on disk, a preview of sling, of a remote recycle and of a
\* queue run with candidates have all completed.
C13_Witness ==
    /\ hooks # {}
    /\ sl.pc = "done" /\ sl.dryRun /\ sl.err = "" /\ sl.agentID # Unresolved
    /\ rc.pc = "done" /\ rc.dryRun /\ rc.err = ""
    /\ rc.target # rc.env.session /\ rc.watch
    /\ qp["q1"].pc = "done" /\ qp["q1"].flags.dryRun
    /\ Len(qp["q1"].scan.candidates) = 2
    /\ backlog = [i \in IssueIds |-> 0]

----------------------------------------------------------------------------
\* C19: a convoy that is not closed becomes closed only in a step of
\* evaluateLanding that reports the landing; no step of track, of an issue
\* changing status, of the queue, of sling or of recycle closes a convoy.
C19_OnlyLandingCloses ==
    [][\A c \in ConvoyIds :
          (convoys[c].status # "closed" /\ convoys'[c].status = "closed") =>
              /\ lastConvoy'.op = "evaluateLanding" /\ lastConvoy'.convoy = c
              /\ lastConvoy'.result = "landed"
              /\ UNCHANGED <<issues, queueVars, slingVars, recycleVars, hostVars>>
      ]_vars

\* Every tracked issue has closed, the queue, a sling and a remote recycle
\* have run since, and the convoy is still open.
C19_Witness ==
    \E c \in ConvoyIds :
        /\ convoys[c].status = "open" /\ convoys[c].tracked # <<>>
        /\ EveryTrackedLanded(c)
        /\ qp["q1"].pc = "done" /\ qp["q1"].scan.skippedClosed = Len(convoys[c].tracked)
        /\ sl.pc = "done" /\ sl.restart # NoRestart
        /\ rc.pc = "done" /\ rc.restart # NoRestart /\ rc.target # rc.env.session

----------------------------------------------------------------------------
(* Remote recycle: the race with a vanishing session, the pane that is     *)
(* respawned, and the view switch.                                         *)

RemoteRecycle == rc.target # NoSession /\ rc.target # rc.env.session

TargetVanished ==
    \/ rc.pc = "remote" /\ rc.target \notin sessions
    \/ rc.pc = "respawn" /\ rc.paneGone

\* C25: in a remote recycle, when the target session has gone after the
\* existence check found it, the step that then runs (pane lookup or
\* respawn) ends the operation with an error, with no restart and no view
\* switch, and with at most one respawn attempt.
C25_VanishedTargetIsAnError ==
    [][(TargetVanished /\ rc' # rc /\ rc'.pc # rc.pc) =>
          /\ rc.checked /\ rc.live /\ RemoteRecycle
          /\ rc'.pc = "done"
          /\ rc'.err \in {"getting-target-pane", "respawning-pane"}
          /\ rc'.restart = NoRestart /\ rc'.switch = "none"
          /\ rc'.attempts <= 1]_vars

\* The witness found at the check exits after its pane was looked up.
C25_Witness ==
    /\ rc.pc = "done" /\ rc.live /\ rc.paneGone
    /\ rc.err = "respawning-pane" /\ rc.attempts = 1
    /\ rc.restart = NoRestart

\* C26: a recycle respawns at most one pane, once, with the restart command
\* of the resolved target: the caller's own pane, with no existence check,
\* when the target is the caller's session; otherwise the target session's
\* pane, after the existence check, and never the caller's pane.
C26_RestartsOnlyTheTarget ==
    /\ rc.attempts <= 1
    /\ rc.restart # NoRestart =>
          /\ rc.attempts = 1
          /\ rc.target = (IF rc.arg = NoArg THEN rc.env.session
                          ELSE resolveRoleToSession(rc.arg, rc.env))
          /\ rc.restart.cmd = buildRestartCommand(rc.target)
          /\ IF rc.target = rc.env.session
             THEN rc.restart.pane = rc.env.TMUX_PANE /\ ~rc.checked
             ELSE /\ rc.restart.pane = getSessionPane(rc.target)
                  /\ rc.restart.pane # rc.env.TMUX_PANE
                  /\ rc.checked

\* Joe, in his crew session, recycles the running witness of his rig.
C26_Witness ==
    /\ rc.pc = "done" /\ rc.env.session = <<"gt", "rigA", "crew", "joe">>
    /\ rc.target = <<"gt", "rigA", "witness">>
    /\ rc.restart = [pane |-> "%3", cmd |-> buildRestartCommand(rc.target)]

\* C27: the view switch is attempted only in a remote recycle with watch
\* set whose restart was accepted; when the switch fails the operation
\* still succeeds and the one restart stands.
C27_SwitchOnlyAfterRestart ==
    rc.switch # "none" =>
        /\ rc.pc = "done" /\ rc.watch /\ RemoteRecycle
        /\ rc.restart = [pane |-> getSessionPane(rc.target), cmd |-> rc.cmd]
        /\ rc.attempts = 1
        /\ rc.err = ""

\* A watched recycle of the witness whose view switch failed.
C27_Witness ==
    /\ rc.pc = "done" /\ rc.watch /\ rc.switch = "failed"
    /\ rc.err = "" /\ rc.restart # NoRestart

----------------------------------------------------------------------------
(* The skip rules of the queue: precedence, --force, double placement.     *)

SnapClosed(p, id) == IsClosedStatus(qp[p].snap.issues[id].status)
SnapAssigned(p, id) == qp[p].snap.issues[id].assignee # ""
SnapReadable(p, id) == id \notin qp[p].snap.unreadable
SnapQueued(p, id) == qp[p].snap.issues[id].queued
SnapNoRig(p, id) == resolveRigForBead(id) = ""

\* The skip reason of a tracked issue under the precedence
\* closed > assigned > already-queued > no-rig; labels are known only for
\* an issue whose lookup succeeded.
SkipReason(p, id) ==
    IF SnapClosed(p, id) THEN "closed"
    ELSE IF SnapAssigned(p, id) /\ ~qp[p].flags.force THEN "assigned"
    ELSE IF ~SnapReadable(p, id) THEN "lookup-failed"
    ELSE IF SnapQueued(p, id) THEN "queued"
    ELSE IF SnapNoRig(p, id) THEN "no-rig"
    ELSE "none"

SkipCount(p, reason) ==
    Cardinality({id \in Range(qp[p].snap.tracked) : SkipReason(p, id) = reason})

\* C23: every tracked issue is counted under the first skip reason that
\* applies to it in the order closed, assigned, already-queued, no-rig, and
\* under no other: each counter is the number of issues with that reason.
C23_SkipPrecedence ==
    \A p \in QueueRuns :
        (Scanned(p) /\ qp[p].snap.tracked # <<>>) =>
            /\ qp[p].scan.skippedClosed = SkipCount(p, "closed")
            /\ qp[p].scan.skippedAssigned = SkipCount(p, "assigned")
            /\ qp[p].scan.skippedQueued = SkipCount(p, "queued")
            /\ qp[p].scan.skippedNoRig = SkipCount(p, "no-rig")

\* An issue both assigned and already queued, scanned without force next
\* to a closed town-root issue: one assigned, one closed, nothing else.
C23_Witness ==
    \E p \in QueueRuns :
        /\ Scanned(p) /\ ~qp[p].flags.force
        /\ qp[p].snap.tracked = << <<"hq", "1">>, <<"bd", "b">>, <<"gt", "a">> >>
        /\ SnapClosed(p, <<"hq", "1">>)
        /\ ~SnapClosed(p, <<"gt", "a">>)
        /\ SnapAssigned(p, <<"gt", "a">>) /\ SnapQueued(p, <<"gt", "a">>)
        /\ SnapReadable(p, <<"gt", "a">>)
        /\ SkipReason(p, <<"bd", "b">>) = "none"
        /\ qp[p].scan.skippedClosed = 1 /\ qp[p].scan.skippedAssigned = 1
        /\ qp[p].scan.skippedQueued = 0 /\ qp[p].scan.skippedNoRig = 0

\* C24: with force the assigned counter is 0 and an assigned issue is a
\* candidate exactly when no other rule skips it; with or without force a
\* closed issue, an issue with the queue label and an issue without a rig
\* are never candidates and never reach a backlog; an unassigned issue is
\* classified the same with and without force.
C24_ForceOnlyLiftsAssigned ==
    /\ \A p \in QueueRuns :
          Scanned(p) =>
              /\ qp[p].flags.force => qp[p].scan.skippedAssigned = 0
              /\ \A id \in CandidateIds(p) :
                    /\ ~SnapClosed(p, id) /\ ~SnapQueued(p, id) /\ ~SnapNoRig(p, id)
                    /\ SnapAssigned(p, id) => qp[p].flags.force
              /\ \A id \in Range(qp[p].snap.tracked) :
                    (qp[p].flags.force /\ SnapAssigned(p, id) /\ SnapReadable(p, id)) =>
                        (id \in CandidateIds(p) <=>
                            ~SnapClosed(p, id) /\ ~SnapQueued(p, id) /\ ~SnapNoRig(p, id))
    /\ \A id \in IssueIds :
          /\ backlog[id] > 0 =>
                ~IsClosedStatus(issues[id].status) /\ resolveRigForBead(id) # ""
          /\ issues[id].assignee = "" =>
                \A d \in BOOLEAN :
                    ScanIssue(NoScan, id, [force |-> TRUE, dryRun |-> d])
                        = ScanIssue(NoScan, id, [force |-> FALSE, dryRun |-> d])
    /\ \A p, q \in QueueRuns :
          ( /\ Scanned(p) /\ Scanned(q)
            /\ qp[p].snap = qp[q].snap
            /\ \A id \in Range(qp[p].snap.tracked) : ~SnapAssigned(p, id) )
          => qp[p].scan = qp[q].scan

\* A forced run made an assigned issue a candidate and skipped the issue
\* that already carried the queue label.
C24_Witness ==
    \E p \in QueueRuns :
        /\ Scanned(p) /\ qp[p].flags.force
        /\ qp[p].scan.skippedAssigned = 0 /\ qp[p].scan.skippedQueued = 1
        /\ \E id \in CandidateIds(p) : SnapAssigned(p, id)
        /\ \E id \in Range(qp[p].snap.tracked) :
              SnapAssigned(p, id) /\ SnapQueued(p, id) /\ id \notin CandidateIds(p)

\* C29: no issue is placed into a rig backlog more than once, also when two
\* queue runs on the same convoy overlap.
C29_PlacedAtMostOnce == \A id \in IssueIds : backlog[id] <= 1

----------------------------------------------------------------------------
(* Sling: validation before any write, and whose session is restarted.     *)

\* C28: a sling of an issue that does not exist, or by a caller whose
\* identity cannot be resolved, ends with the not-found error (checked
\* first; also the answer when the store lookup itself broke down) or the
\* identity error, and the step writes no hook, sends no mail and issues no
\* restart.
C28_ValidatesBeforeWriting ==
    [][(/\ sl' # sl /\ sl.pc # "handoff"
        /\ (sl'.beadID \notin IssueIds \/ detectAgentIdentity(sl'.env) = Unresolved))
       => /\ sl'.pc = "done"
          /\ sl'.err = (IF sl'.beadID \notin IssueIds \/ sl'.fault = "bd-show-crash"
                        THEN "bead-not-found"
                        ELSE "identity-unresolved")
          /\ hooks' = hooks /\ clock' = clock /\ attached' = attached
          /\ ~sl'.wrote /\ sl'.mail = "none" /\ sl'.restart = NoRestart]_vars

\* A caller outside tmux with no role variables slings an existing issue
\* while another agent's hook is set: the hook store is as it was.
C28_Witness ==
    /\ sl.pc = "done" /\ sl.err = "identity-unresolved"
    /\ sl.beadID \in IssueIds /\ sl.fault = "none"
    /\ hooks # {} /\ ~sl.wrote /\ sl.restart = NoRestart

\* The session an agent identity runs in, by the naming of sessions.
SessionOf(agentID) ==
    IF agentID = <<"mayor">> THEN <<"gt", "mayor">>
    ELSE IF agentID = <<"deacon">> THEN <<"gt", "deacon">>
    ELSE IF Len(agentID) = 3 /\ agentID[2] = "crew"
    THEN <<"gt", agentID[1], "crew", agentID[3]>>
    ELSE IF Len(agentID) = 3 /\ agentID[2] = "polecats"
    THEN <<"gt", agentID[1], agentID[3]>>
    ELSE IF Len(agentID) = 2 THEN <<"gt", agentID[1], agentID[2]>>
    ELSE NoSession

\* C30: in a sling that succeeded, the session that was restarted is the
\* session of the identity whose hook was written.
C30_HookAndRestartSameAgent ==
    (sl.pc = "done" /\ sl.err = "" /\ sl.restart # NoRestart) =>
        /\ SessionOf(sl.agentID) = sl.env.session
        /\ sl.restart.cmd = buildRestartCommand(SessionOf(sl.agentID))

----------------------------------------------------------------------------
(* The store-failure classifier and the settings file.                     *)

\* The fragments that carry a crash or fault marker.
FaultWords ==
    {"panic:", "runtime error:",
     "invalid memory address nil pointer dereference",
     "signal SIGSEGV: segmentation violation", "signal: killed",
     "table 'wisps' does not exist",
     "github.com/dolthub/dolt/go/libraries/doltcore/doltdb.(*DoltDB).SetCrashOnFatalError"}

\* C21: the classifier answers true exactly for a failure text with a
\* fragment carrying a crash or fault marker: false for nil, false for a
\* text made of ordinary fragments only ("not found", a constraint
\* violation), and it agrees with every row of its test table.
C21_ClassifierByMarker ==
    /\ cls.pc = "classified" =>
          (cls.fault <=> /\ ~cls.err.nil
                         /\ \E k \in 1..Len(cls.err.text) : cls.err.text[k] \in FaultWords)
    /\ \A row \in TestIsDoltOrWispError : isDoltOrWispError(row.err) = row.want

\* "bd create: not found" was classified, and not as a fault.
C21_Witness ==
    /\ cls.pc = "classified"
    /\ cls.err = Error(<<"bd create:", "not found">>)
    /\ ~cls.fault

\* C22: a settings file that exists keeps the content it had when it first
\* existed, whatever calls follow; a call on an existing file succeeds and
\* changes nothing; a call with no file creates a non-empty one, or returns
\* an error and creates nothing when the directory cannot be made or the
\* file cannot be written.
C22_NeverOverwrites ==
    /\ \A p \in SettingsPaths : first[p].exists => files[p].file = first[p]
    /\ ens.result # "none" =>
          LET before == ens.before
              after == files[ens.path]
          IN IF before.file.exists
             THEN ens.result = "ok" /\ after = before
             ELSE IF before.dir = "file"
             THEN ens.result = "mkdir-error" /\ after = before
             ELSE IF before.dir = "readonly"
             THEN ens.result = "write-error" /\ after = before
             ELSE /\ ens.result = "ok"
                  /\ after.file.exists /\ after.file.content # ""

\* A file created for an autonomous role met a later call for an
\* interactive role and kept its content.
C22_Witness ==
    /\ ens.result = "ok" /\ ens.roleType = "interactive"
    /\ ens.before.file = [exists |-> TRUE, content |-> "settings-autonomous.json"]
    /\ files[ens.path].file.content = "settings-autonomous.json"

----------------------------------------------------------------------------
(* Preview against commitment.                                             *)

\* The failures of a sling or recycle that come before the restart is
\* issued: missing issue, unresolved identity, role not allowed, unknown
\* session pattern, missing target session.
Rejections ==
    {"bead-not-found", "identity-unresolved", "polecats-cannot-sling",
     "unknown-session-type", "session-not-found"}

SlingRejectedAfterPreview ==
    /\ sl.pc = "done" /\ ~sl.dryRun /\ sl.preview.seen
    /\ sl.err \in Rejections /\ sl.restart = NoRestart

RecycleRejectedAfterPreview ==
    /\ rc.pc = "done" /\ ~rc.dryRun /\ rc.preview.seen
    /\ rc.err \in Rejections /\ rc.restart = NoRestart

\* C31 (recycle): a recycle that is rejected before the restart was
\* rejected with the same failure by its preview.
C31_RecyclePreviewAgrees ==
    RecycleRejectedAfterPreview => rc.preview.err = rc.err

\* C31: a sling or recycle that is rejected before the restart was
\* rejected with the same failure by the preview of the same invocation
\* from the same state.
C31_PreviewAgreesOnRejection ==
    /\ SlingRejectedAfterPreview => sl.preview.err = sl.err
    /\ C31_RecyclePreviewAgrees

====
